---- MODULE Spec2Model ----
(***************************************************************************)
(* Model of the selective document query engine of pdf-agent-mcp           *)
(* (src/src/index.ts): the page-range parser, the search-pattern compiler, *)
(* the bounded matcher and the search_pdf tool handler with its two        *)
(* scanning strategies.                                                    *)
(*                                                                         *)
(* A JavaScript string is a sequence of one-character strings.             *)
(***************************************************************************)
EXTENDS Integers, Sequences, FiniteSets, TLC

(***************************************************************************)
(* Bounds of the model.                                                    *)
(***************************************************************************)
MaxRangeLen == 4
MaxPages == 3
MaxPatternLen == 4
MaxTextLen == 2
MaxDocPages == 2
MaxLimit == 2
MaxPageLen == 4
MaxContextChars == 2
MaxOutlineDepth == 3
MaxOutlineWidth == 2

VARIABLES
    rangeStr,       \* parsePageRange: the rangeStr argument
    totalPages,     \* parsePageRange: the totalPages argument
    rangeResult,    \* parsePageRange: what the call returned or threw
    pattern,        \* parseSearchPattern: the pattern argument
    compiled,       \* parseSearchPattern: what the call returned or threw
    text,           \* searchWithTimeout: the text argument, one page's text
    regex,          \* searchWithTimeout: the RegExp argument, with its lastIndex
    matches,        \* searchWithTimeout: the matches array, as runs of equal entries
    scanPc,         \* searchWithTimeout: "idle", "loop" (inside the while) or "done"
    promise,        \* searchWithTimeout: the promise it returned
    timer,          \* searchWithTimeout: the timeout timer
    outcome,        \* what a direct caller awaiting the promise received
    args,           \* search_pdf: the other arguments of the tool call
    fileOk,         \* search_pdf: the file exists and loads as a PDF
    doc,            \* search_pdf: the text of each page of the document
    hPc,            \* search_pdf: position of the handler and of the search it runs
    searchRegex,    \* the regex a search function got from parseSearchPattern
    idx,            \* the page loop: index into pageNumbers, from 1
    pageTexts,      \* searchPdfComprehensive: pageTexts
    results,        \* results of the search function
    errors,         \* errors of the search function
    totalMatchCount,\* searchPdfPageByPage: totalMatchCount
    pagesScanned,   \* searchPdfPageByPage: pagesScanned
    extractLog,     \* the pages whose text was asked of the backend, in order
    scanLog,        \* the pages searchWithTimeout was called on, in order
    response,       \* search_pdf: what the handler returned
    contextArgs,    \* extractContext: matchStart, matchEnd and contextChars
    contextResult,  \* extractContext: what the call returned
    outline,        \* extractPdfOutline: what pdfDoc.getOutline() gives
    outlineOptions, \* extractPdfOutline: the options argument
    outlineResult,  \* extractPdfOutline: what the call returned or threw
    console,        \* the console methods installed: "original" or "silenced"
    nativeCalls,    \* extractTextNative: the position of each call in progress
    targetFile,     \* downloadPdfFromUrl: the file at filePath
    downloads       \* downloadPdfFromUrl: the position and result of each call

rangeVars == <<rangeStr, totalPages, rangeResult>>
patternVars == <<pattern, compiled>>
scanVars == <<text, regex, matches, scanPc, promise, timer, outcome>>
contextVars == <<contextArgs, contextResult>>
outlineVars == <<outline, outlineOptions, outlineResult>>
consoleVars == <<console, nativeCalls>>
downloadVars == <<targetFile, downloads>>
otherToolVars == <<contextVars, outlineVars, consoleVars, downloadVars>>
searchVars == <<args, fileOk, doc, hPc, searchRegex, idx, pageTexts, results, errors,
                totalMatchCount, pagesScanned, extractLog, scanLog, response, otherToolVars>>
vars == <<rangeStr, totalPages, rangeResult, pattern, compiled,
          text, regex, matches, scanPc, promise, timer, outcome,
          args, fileOk, doc, hPc, searchRegex, idx, pageTexts, results, errors,
          totalMatchCount, pagesScanned, extractLog, scanLog, response,
          contextArgs, contextResult, outline, outlineOptions, outlineResult,
          console, nativeCalls, targetFile, downloads>>

NoResult == [kind |-> "none"]

(***************************************************************************)
(* String helpers: what the JavaScript built-ins used by the code do.      *)
(***************************************************************************)
RangeAlphabet == {"0", "1", "2", "3", ":", ",", "-", " ", "x"}

DigitChars == {"0", "1", "2", "3", "4", "5", "6", "7", "8", "9"}

DigitVal(c) ==
    CASE c = "0" -> 0 [] c = "1" -> 1 [] c = "2" -> 2 [] c = "3" -> 3
      [] c = "4" -> 4 [] c = "5" -> 5 [] c = "6" -> 6 [] c = "7" -> 7
      [] c = "8" -> 8 [] c = "9" -> 9

IsWhiteSpace(c) == c \in {" ", "\t", "\n", "\r"}

RECURSIVE TrimStart(_)
TrimStart(s) ==
    IF s # <<>> /\ IsWhiteSpace(Head(s)) THEN TrimStart(Tail(s)) ELSE s

RECURSIVE TrimEnd(_)
TrimEnd(s) ==
    IF s # <<>> /\ IsWhiteSpace(s[Len(s)])
    THEN TrimEnd(SubSeq(s, 1, Len(s) - 1))
    ELSE s

\* String.prototype.trim
Trim(s) == TrimEnd(TrimStart(s))

\* String.prototype.includes for a one-character needle
Includes(s, c) == \E i \in 1..Len(s) : s[i] = c

\* String.prototype.split for a one-character separator
RECURSIVE Split(_, _)
Split(s, sep) ==
    IF ~Includes(s, sep)
    THEN <<s>>
    ELSE LET i == CHOOSE k \in 1..Len(s) :
                      s[k] = sep /\ \A j \in 1..(k - 1) : s[j] # sep
         IN  <<SubSeq(s, 1, i - 1)>> \o Split(SubSeq(s, i + 1, Len(s)), sep)

\* Array.prototype.map(seg => seg.trim())
MapTrim(segs) == [i \in 1..Len(segs) |-> Trim(segs[i])]

\* Array.prototype.filter(seg => seg.length > 0)
RECURSIVE FilterNonEmpty(_)
FilterNonEmpty(segs) ==
    IF segs = <<>> THEN <<>>
    ELSE IF Len(Head(segs)) > 0
         THEN <<Head(segs)>> \o FilterNonEmpty(Tail(segs))
         ELSE FilterNonEmpty(Tail(segs))

\* The value of the longest prefix of s made of decimal digits, read left
\* to right, together with the number of digits read.
RECURSIVE DigitPrefix(_, _, _)
DigitPrefix(s, acc, n) ==
    IF s # <<>> /\ Head(s) \in DigitChars
    THEN DigitPrefix(Tail(s), 10 * acc + DigitVal(Head(s)), n + 1)
    ELSE [val |-> acc, digits |-> n]

NaN == [nan |-> TRUE, val |-> 0]
Num(v) == [nan |-> FALSE, val |-> v]

\* parseInt(s, 10): skips leading white space, takes an optional sign and the
\* longest run of digits, ignores whatever follows; NaN when no digit is read.
ParseInt(s) ==
    LET t    == TrimStart(s)
        neg  == t # <<>> /\ Head(t) = "-"
        sgn  == t # <<>> /\ Head(t) \in {"-", "+"}
        body == IF sgn THEN Tail(t) ELSE t
        p    == DigitPrefix(body, 0, 0)
    IN  IF p.digits = 0 THEN NaN
        ELSE Num(IF neg THEN 0 - p.val ELSE p.val)

\* isNaN, and the comparisons of a parsed number: every comparison with NaN
\* is false.
IsNaN(x) == x.nan
NumLT(x, k) == ~x.nan /\ x.val < k
NumGT(x, k) == ~x.nan /\ x.val > k

\* The pages start..end pushed by the for loop.
Interval(start, end) == [i \in 1..(IF end >= start THEN end - start + 1 ELSE 0)
                            |-> start + i - 1]

(***************************************************************************)
(* parseSinglePageRange                                                    *)
(***************************************************************************)
Pages(ps) == [kind |-> "pages", pages |-> ps]
Throw(msg) == [kind |-> "error", error |-> msg]

\* start > end, start > totalPages, clamping of end, and the page loop
RangeOfBounds_StartNotChecked(start, end, totalPgs) ==
    IF start > end THEN Throw("start greater than end")
    ELSE Pages(Interval(start, IF end > totalPgs THEN totalPgs ELSE end))

RangeOfBounds_EndNotClamped(start, end, totalPgs) ==
    IF start > end THEN Throw("start greater than end")
    ELSE IF start > totalPgs THEN Throw("start exceeds document length")
    ELSE Pages(Interval(start, end))

RangeOfBounds(start, end, totalPgs) ==
    IF start > end THEN Throw("start greater than end")
    ELSE IF start > totalPgs THEN Throw("start exceeds document length")
    ELSE Pages(Interval(start, IF end > totalPgs THEN totalPgs ELSE end))

parseSinglePageRange(segment, totalPgs) ==
    LET trimmed == Trim(segment) IN
    IF trimmed = <<>> THEN Throw("segment empty")
    ELSE IF ~Includes(trimmed, ":")
    THEN LET pageNum == ParseInt(trimmed) IN
         IF IsNaN(pageNum) \/ NumLT(pageNum, 1) \/ NumGT(pageNum, totalPgs)
         THEN Throw("invalid page number")
         ELSE Pages(<<pageNum.val>>)
    ELSE LET parts == Split(trimmed, ":") IN
         IF Len(parts) # 2 THEN Throw("invalid page range format")
         ELSE LET hasStart == Trim(parts[1]) # <<>>
                  hasEnd   == Trim(parts[2]) # <<>>
                  start    == IF hasStart THEN ParseInt(Trim(parts[1])) ELSE Num(1)
                  end      == IF hasEnd THEN ParseInt(Trim(parts[2])) ELSE Num(totalPgs)
              IN  IF hasStart /\ (IsNaN(start) \/ NumLT(start, 1))
                  THEN Throw("invalid start page")
                  ELSE IF hasEnd /\ (IsNaN(end) \/ NumLT(end, 1))
                  THEN Throw("invalid end page")
                  ELSE RangeOfBounds(start.val, end.val, totalPgs)

(***************************************************************************)
(* parsePageRange                                                          *)
(***************************************************************************)
\* Set.prototype.add over the pages of one segment: a Set keeps insertion
\* order and ignores a value it already holds.
RECURSIVE AddAll(_, _)
AddAll(allPages, ps) ==
    IF ps = <<>> THEN allPages
    ELSE AddAll(IF \E i \in 1..Len(allPages) : allPages[i] = Head(ps)
                THEN allPages
                ELSE Append(allPages, Head(ps)),
                Tail(ps))

\* Array.prototype.sort((a, b) => a - b) on distinct numbers
RECURSIVE SortAscending(_)
Unsorted(a) == a

SortAscending(a) ==
    IF a = <<>> THEN <<>>
    ELSE LET i == CHOOSE k \in 1..Len(a) : \A j \in 1..Len(a) : a[k] <= a[j]
         IN  <<a[i]>> \o SortAscending(SubSeq(a, 1, i - 1) \o SubSeq(a, i + 1, Len(a)))

\* The for loop over the segments: the first segment that throws ends it.
RECURSIVE SegmentLoop(_, _, _)
SegmentLoop(segments, allPages, totalPgs) ==
    IF segments = <<>>
    THEN Pages(SortAscending(allPages))
    ELSE LET r == parseSinglePageRange(Head(segments), totalPgs) IN
         IF r.kind = "error"
         THEN [kind |-> "error", error |-> "Invalid segment",
               segment |-> Head(segments), cause |-> r.error]
         ELSE SegmentLoop(Tail(segments), AddAll(allPages, r.pages), totalPgs)

SplitSegments(range) == FilterNonEmpty(MapTrim(Split(range, ",")))

parsePageRange(str, totalPgs) ==
    LET range == Trim(str) IN
    IF range = <<>>
    THEN [kind |-> "error", error |-> "Page range cannot be empty",
          segment |-> <<>>, cause |-> "empty"]
    ELSE LET segments == SplitSegments(range) IN
         IF Len(segments) = 0
         THEN [kind |-> "error", error |-> "Page range cannot be empty after parsing",
               segment |-> <<>>, cause |-> "empty"]
         ELSE SegmentLoop(segments, <<>>, totalPgs)

(***************************************************************************)
(* Specification of the range parser: any expression over the alphabet,    *)
(* any page count, one call.                                               *)
(***************************************************************************)
StringsUpTo(alphabet, n) == UNION {[1..k -> alphabet] : k \in 0..n}

\* The state of the functions a specification does not call.
PatternIdle == pattern = <<>> /\ compiled = NoResult

ScanIdle ==
    /\ text = <<>>
    /\ regex = NoResult
    /\ matches = <<>>
    /\ scanPc = "idle"
    /\ promise = [state |-> "none", error |-> "none"]
    /\ timer = [armed |-> FALSE, expired |-> FALSE]
    /\ outcome = NoResult

NoArgs == [paths |-> "none"]

ContextIdle == contextArgs = NoResult /\ contextResult = NoResult

OutlineIdle == outline = NoResult /\ outlineOptions = NoResult /\ outlineResult = NoResult

ConsoleIdle == console = "original" /\ nativeCalls = NoResult

DownloadIdle == targetFile = NoResult /\ downloads = NoResult

OtherToolsIdle == ContextIdle /\ OutlineIdle /\ ConsoleIdle /\ DownloadIdle

SearchIdle ==
    /\ args = NoArgs
    /\ fileOk = FALSE
    /\ doc = <<>>
    /\ hPc = "idle"
    /\ searchRegex = NoResult
    /\ idx = 0
    /\ pageTexts = <<>>
    /\ results = <<>>
    /\ errors = <<>>
    /\ totalMatchCount = 0
    /\ pagesScanned = 0
    /\ extractLog = <<>>
    /\ scanLog = <<>>
    /\ response = NoResult

InitRange ==
    /\ rangeStr \in StringsUpTo(RangeAlphabet, MaxRangeLen)
    /\ totalPages \in 0..MaxPages
    /\ rangeResult = NoResult
    /\ PatternIdle
    /\ ScanIdle
    /\ SearchIdle
    /\ OtherToolsIdle

CallParsePageRange ==
    /\ rangeResult = NoResult
    /\ hPc = "idle"
    /\ rangeResult' = parsePageRange(rangeStr, totalPages)
    /\ UNCHANGED <<rangeStr, totalPages, patternVars, scanVars, searchVars>>

NextRange == CallParsePageRange

SpecRange == InitRange /\ [][NextRange]_vars

(***************************************************************************)
(* The regular expressions of the model: alternatives of literal           *)
(* characters, escaped characters and '.', with the flags g and i.  They   *)
(* are what new RegExp and RegExp.prototype.exec do on the patterns over   *)
(* PatternAlphabet; an unescaped '(' never closes there, so it is always a *)
(* syntax error, and the only group is the '(?:)' that the source property *)
(* gives for an empty pattern.                                             *)
(***************************************************************************)
PatternAlphabet == {"/", "\\", "(", ".", "|", "a", "A", "g", "i"}
TextAlphabet == {"a", "A", "."}

ValidFlags == {"g", "i", "m", "s", "u", "v", "y"}

EmptyGroup == <<"(", "?", ":", ")">>

StartsWith(s, prefix) ==
    Len(s) >= Len(prefix) /\ SubSeq(s, 1, Len(prefix)) = prefix

\* The atoms of the alternatives of a pattern source, or a syntax error.
\* alts is the list of the alternatives read so far, the last one open.
RECURSIVE ParseSource(_, _)
ParseSource(src, alts) ==
    LET n    == Len(alts)
        push(atom) == [alts EXCEPT ![n] = Append(@, atom)]
    IN  IF src = <<>> THEN [ok |-> TRUE, alts |-> alts]
        ELSE IF Head(src) = "\\"
        THEN IF Len(src) = 1
             THEN [ok |-> FALSE, alts |-> <<>>]      \* \ at end of pattern
             ELSE ParseSource(SubSeq(src, 3, Len(src)),
                              push([any |-> FALSE, ch |-> src[2]]))
        ELSE IF Head(src) = "|"
        THEN ParseSource(Tail(src), Append(alts, <<>>))
        ELSE IF Head(src) = "."
        THEN ParseSource(Tail(src), push([any |-> TRUE, ch |-> "."]))
        ELSE IF StartsWith(src, EmptyGroup)
        THEN ParseSource(SubSeq(src, 5, Len(src)), alts)
        ELSE IF Head(src) = "("
        THEN [ok |-> FALSE, alts |-> <<>>]           \* unterminated group
        ELSE ParseSource(Tail(src), push([any |-> FALSE, ch |-> Head(src)]))

HasDuplicate(s) == \E i, j \in 1..Len(s) : i # j /\ s[i] = s[j]

\* new RegExp(source, flags): a SyntaxError for a flag that is unknown or
\* repeated, for u together with v, and for a source that does not parse;
\* otherwise the object with its source, its flags, lastIndex 0 and the
\* matcher compiled from the source.
NewRegExp(source, flags) ==
    IF \/ \E i \in 1..Len(flags) : flags[i] \notin ValidFlags
       \/ HasDuplicate(flags)
       \/ Includes(flags, "u") /\ Includes(flags, "v")
       \/ ~ParseSource(source, <<<<>>>>).ok
    THEN [kind |-> "error", error |-> "SyntaxError"]
    ELSE [kind |-> "regex", source |-> source, flags |-> flags, lastIndex |-> 0,
          matcher |-> ParseSource(source, <<<<>>>>).alts]

\* String.prototype.toUpperCase on one character: the canonical form that the
\* i flag compares.
ToUpperCase(c) == IF c = "a" THEN "A" ELSE IF c = "g" THEN "G"
                  ELSE IF c = "i" THEN "I" ELSE c

AtomMatches(atom, c, ignoreCase) ==
    IF atom.any THEN c \notin {"\n", "\r"}
    ELSE IF ignoreCase THEN ToUpperCase(atom.ch) = ToUpperCase(c)
    ELSE atom.ch = c

\* Whether the atoms of one alternative match the text at offset p (0-based).
AltMatchesAt(alt, txt, p, ignoreCase) ==
    /\ p + Len(alt) <= Len(txt)
    /\ \A k \in 1..Len(alt) : AtomMatches(alt[k], txt[p + k], ignoreCase)

\* The length of the match at offset p: that of the first alternative, from
\* the left, that matches there; -1 when none does.
MatchLengthAt(rx, txt, p) ==
    LET alts == rx.matcher
        ic   == Includes(rx.flags, "i")
        hits == {a \in 1..Len(alts) : AltMatchesAt(alts[a], txt, p, ic)}
    IN  IF hits = {} THEN 0 - 1
        ELSE Len(alts[CHOOSE a \in hits : \A b \in hits : a <= b])

\* The first offset >= from at which the expression matches, -1 when none.
RECURSIVE FirstMatchFrom(_, _, _)
FirstMatchFrom(rx, txt, from) ==
    IF from > Len(txt) THEN 0 - 1
    ELSE IF MatchLengthAt(rx, txt, from) >= 0 THEN from
    ELSE FirstMatchFrom(rx, txt, from + 1)

IsGlobal(rx) == Includes(rx.flags, "g")
IsSticky(rx) == Includes(rx.flags, "y")

\* RegExp.prototype.exec: the match array (index and matched text), or null,
\* and the expression with its lastIndex afterwards.  Without g the search
\* starts at 0 and lastIndex is left alone; with g it starts at lastIndex,
\* which becomes the end of the match, or 0 when there is none.
Exec(rx, txt) ==
    LET start == IF IsGlobal(rx) THEN rx.lastIndex ELSE 0
        found(p) ==
            IF p < 0
            THEN [match |-> [null |-> TRUE, index |-> 0, m0 |-> <<>>],
                  regex |-> IF IsGlobal(rx) THEN [rx EXCEPT !.lastIndex = 0] ELSE rx]
            ELSE LET e == p + MatchLengthAt(rx, txt, p)
                 IN  [match |-> [null |-> FALSE, index |-> p, m0 |-> SubSeq(txt, p + 1, e)],
                      regex |-> IF IsGlobal(rx) THEN [rx EXCEPT !.lastIndex = e] ELSE rx]
    IN  found(IF start > Len(txt) THEN 0 - 1 ELSE FirstMatchFrom(rx, txt, start))

(***************************************************************************)
(* parseSearchPattern                                                      *)
(***************************************************************************)
\* String.prototype.lastIndexOf('/'), 0-based, -1 when there is none
LastIndexOfSlash(s) ==
    IF ~Includes(s, "/") THEN 0 - 1
    ELSE (CHOOSE i \in 1..Len(s) : s[i] = "/" /\ \A j \in (i + 1)..Len(s) : s[j] # "/") - 1

\* The characters of the class [.*+?^${}()|[\]\\]
RegexMetaChars == {".", "*", "+", "?", "^", "$", "{", "}", "(", ")", "|", "[", "]", "\\"}

\* pattern.replace(/[.*+?^${}()|[\]\\]/g, '\\$&')
RECURSIVE EscapeRegexChars(_)
EscapeRegexChars(s) ==
    IF s = <<>> THEN <<>>
    ELSE (IF Head(s) \in RegexMetaChars THEN <<"\\", Head(s)>> ELSE <<Head(s)>>)
             \o EscapeRegexChars(Tail(s))

\* The flags given to a literal pattern
LiteralFlags == <<"g", "i">>

\* The test that tells a /pattern/flags string from a literal one
IsDelimited_AnySlash(pat) == Includes(pat, "/")

IsDelimited(pat) == StartsWith(pat, <<"/">>) /\ LastIndexOfSlash(pat) > 0

parseSearchPattern(pat) ==
    IF IsDelimited(pat)
    THEN LET lastSlash    == LastIndexOfSlash(pat)
             regexPattern == SubSeq(pat, 2, lastSlash)
             flags        == SubSeq(pat, lastSlash + 2, Len(pat))
         IN  IF \E i \in 1..Len(flags) : flags[i] \notin ValidFlags
             THEN [kind |-> "error", error |-> "Invalid regex flags"]
             ELSE LET rx == NewRegExp(regexPattern, flags) IN
                  IF rx.kind = "error"
                  THEN [kind |-> "error", error |-> "Invalid regex pattern"]
                  ELSE [kind |-> "compiled", regex |-> rx, isRegex |-> TRUE]
    ELSE [kind |-> "compiled",
          regex |-> NewRegExp(EscapeRegexChars(pat), LiteralFlags),
          isRegex |-> FALSE]

(***************************************************************************)
(* Specification of the pattern compiler: any pattern over the alphabet,   *)
(* one call, and any page text to try the compiled expression on.          *)
(***************************************************************************)
RangeIdle == rangeStr = <<>> /\ totalPages = 0 /\ rangeResult = NoResult

InitPattern ==
    /\ pattern \in StringsUpTo(PatternAlphabet, MaxPatternLen)
    /\ compiled = NoResult
    /\ RangeIdle
    /\ text \in StringsUpTo(TextAlphabet, MaxTextLen)
    /\ regex = NoResult
    /\ matches = <<>>
    /\ scanPc = "idle"
    /\ promise = [state |-> "none", error |-> "none"]
    /\ timer = [armed |-> FALSE, expired |-> FALSE]
    /\ outcome = NoResult
    /\ SearchIdle
    /\ OtherToolsIdle

CallParseSearchPattern ==
    /\ compiled = NoResult
    /\ hPc = "idle"
    /\ compiled' = parseSearchPattern(pattern)
    /\ UNCHANGED <<rangeVars, pattern, scanVars, searchVars>>

NextPattern == CallParseSearchPattern

SpecPattern == InitPattern /\ [][NextPattern]_vars

(***************************************************************************)
(* searchWithTimeout.  The promise executor runs synchronously: it arms    *)
(* the timer, runs the whole match loop and clears the timer before the    *)
(* thread is free again.  A timer callback runs only from the event loop,  *)
(* that is when no code is running; its deadline may pass at any moment.   *)
(***************************************************************************)
MatchCeiling == 10000

\* The matches array is kept as runs: consecutive entries with the same index
\* and the same matched text are one run with its length.  Push appends one
\* match array, Length is matches.length, Entries the array written out.
Push(ms, m) ==
    IF ms # <<>> /\ ms[Len(ms)].match = m
    THEN [ms EXCEPT ![Len(ms)].count = @ + 1]
    ELSE Append(ms, [match |-> m, count |-> 1])

RECURSIVE Length(_)
Length(ms) == IF ms = <<>> THEN 0 ELSE ms[1].count + Length(Tail(ms))

RECURSIVE Entries(_)
Entries(ms) ==
    IF ms = <<>> THEN <<>>
    ELSE [i \in 1..ms[1].count |-> ms[1].match] \o Entries(Tail(ms))

\* if (match.index === regex.lastIndex) regex.lastIndex++
AdvancePastEmptyMatch_Never(rx, m) == rx

AdvancePastEmptyMatch(rx, m) ==
    IF m.index = rx.lastIndex THEN [rx EXCEPT !.lastIndex = @ + 1] ELSE rx

\* if (matches.length > 10000) throw
TooManyMatches_AtCeiling(ms) == Length(ms) >= MatchCeiling

TooManyMatches(ms) == Length(ms) > MatchCeiling

\* setTimeout and clearTimeout
SetTimeout == [armed |-> TRUE, expired |-> FALSE]
ClearTimeout(t) == [t EXCEPT !.armed = FALSE]

Pending == [state |-> "pending", error |-> "none"]
\* resolve and reject settle a promise once; later calls change nothing.
Resolve(p) == IF p.state = "pending" THEN [state |-> "resolved", error |-> "none"] ELSE p
Reject(p, err) == IF p.state = "pending" THEN [state |-> "rejected", error |-> err] ELSE p

\* The executor up to the while loop: setTimeout, matches = [] and
\* regex.lastIndex = 0.
BeginScan(txt, rx) ==
    /\ text' = txt
    /\ regex' = [rx EXCEPT !.lastIndex = 0]
    /\ matches' = <<>>
    /\ timer' = SetTimeout
    /\ promise' = Pending
    /\ scanPc' = "loop"

\* One evaluation of the while condition with the body it leads to: the loop
\* ends on null with clearTimeout and resolve; a match is pushed, lastIndex
\* is moved past an empty match, and more than MatchCeiling matches throw
\* into the catch block, which does clearTimeout and reject.
ScanLoopStep ==
    /\ scanPc = "loop"
    /\ \E r \in {Exec(regex, text)} :
           IF r.match.null
           THEN /\ regex' = r.regex
                /\ timer' = ClearTimeout(timer)
                /\ promise' = Resolve(promise)
                /\ scanPc' = "done"
                /\ UNCHANGED matches
           ELSE \E ms \in {Push(matches, [index |-> r.match.index, m0 |-> r.match.m0])} :
                    /\ matches' = ms
                    /\ regex' = AdvancePastEmptyMatch(r.regex, r.match)
                    /\ IF TooManyMatches(ms)
                       THEN /\ timer' = ClearTimeout(timer)
                            /\ promise' = Reject(promise, "Too many matches found")
                            /\ scanPc' = "done"
                       ELSE UNCHANGED <<timer, promise, scanPc>>
    /\ UNCHANGED text

\* timeoutMs elapse after setTimeout: the timer is due.
TimerExpires ==
    /\ timer.armed
    /\ ~timer.expired
    /\ timer' = [timer EXCEPT !.expired = TRUE]

\* The event loop, entered when no code is running: the callback of a timer
\* that is still armed and due rejects the promise.
AfterTimers(p, t) ==
    IF t.armed /\ t.expired THEN Reject(p, "Search timed out") ELSE p

\* The value an await of the promise gives, or the error it throws.
Awaited(p) ==
    IF p.state = "resolved" THEN [kind |-> "matches"]
    ELSE [kind |-> "error", error |-> p.error]

(***************************************************************************)
(* Specification of the matcher: one call of searchWithTimeout on a page   *)
(* text with the expression compiled from a pattern.  The expressions     *)
(* without the g flag are those of NonGlobalCases.                         *)
(***************************************************************************)
ScanPatterns ==
    { <<"a">>, <<".">>,
      <<"/", "a", "/", "g">>, <<"/", "a", "|", ".", "/", "g", "i">>,
      <<"/", "/", "g">>, <<"/", "|", "a", "/", "g">>, <<"/", "a", "|", "/", "g">>,
      <<"/", ".", "/", "g">> }
NonGlobalCases ==
    { [pattern |-> <<"/", "a", "/">>, text |-> <<".", "a">>],
      [pattern |-> <<"/", "a", "/">>, text |-> <<".">>],
      [pattern |-> <<"/", "/", "i">>, text |-> <<"a">>] }

InitScan ==
    /\ \/ /\ pattern \in ScanPatterns
          /\ text \in StringsUpTo(TextAlphabet, MaxTextLen)
       \/ \E c \in NonGlobalCases : pattern = c.pattern /\ text = c.text
    /\ compiled = parseSearchPattern(pattern)
    /\ regex \in {[compiled.regex EXCEPT !.lastIndex = i] : i \in 0..Len(text)}
    /\ matches = <<>>
    /\ scanPc = "idle"
    /\ promise = [state |-> "none", error |-> "none"]
    /\ timer = [armed |-> FALSE, expired |-> FALSE]
    /\ outcome = NoResult
    /\ RangeIdle
    /\ SearchIdle
    /\ OtherToolsIdle

CallSearchWithTimeout ==
    /\ scanPc = "idle"
    /\ hPc = "idle"
    /\ BeginScan(text, regex)
    /\ UNCHANGED <<rangeVars, patternVars, outcome, searchVars>>

ScanStep ==
    /\ ScanLoopStep
    /\ UNCHANGED <<rangeVars, patternVars, outcome, searchVars>>

DeadlinePasses ==
    /\ TimerExpires
    /\ UNCHANGED <<rangeVars, patternVars, text, regex, matches, scanPc, promise, outcome,
                   searchVars>>

\* The caller's await: the executor has returned, the event loop runs.
AwaitSearch ==
    /\ scanPc = "done"
    /\ hPc = "idle"
    /\ outcome = NoResult
    /\ promise' = AfterTimers(promise, timer)
    /\ timer' = ClearTimeout(timer)
    /\ outcome' = Awaited(promise')
    /\ UNCHANGED <<rangeVars, patternVars, text, regex, matches, scanPc, searchVars>>

NextScan == CallSearchWithTimeout \/ ScanStep \/ DeadlinePasses \/ AwaitSearch

SpecScan == InitScan /\ [][NextScan]_vars

\* The match loop is a loop of one thread: it keeps running.
SpecScanFair == SpecScan /\ WF_vars(ScanStep) /\ WF_vars(CallSearchWithTimeout)

(***************************************************************************)
(* The search functions and the search_pdf tool handler.                   *)
(***************************************************************************)
\* The source property of a RegExp: '(?:)' for an empty pattern, and every
\* unescaped '/' escaped.
RECURSIVE EscapeSlashes(_)
EscapeSlashes(src) ==
    IF src = <<>> THEN <<>>
    ELSE IF Head(src) = "\\" /\ Len(src) >= 2
    THEN <<src[1], src[2]>> \o EscapeSlashes(SubSeq(src, 3, Len(src)))
    ELSE IF Head(src) = "/"
    THEN <<"\\", "/">> \o EscapeSlashes(Tail(src))
    ELSE <<Head(src)>> \o EscapeSlashes(Tail(src))

SourceProperty(rx) == IF rx.source = <<>> THEN EmptyGroup ELSE EscapeSlashes(rx.source)

\* The flags property of a RegExp: its flags in the order d g i m s u v y.
RECURSIVE KeepFlags(_, _)
KeepFlags(order, flags) ==
    IF order = <<>> THEN <<>>
    ELSE (IF Includes(flags, Head(order)) THEN <<Head(order)>> ELSE <<>>)
             \o KeepFlags(Tail(order), flags)

FlagsProperty(rx) == KeepFlags(<<"d", "g", "i", "m", "s", "u", "v", "y">>, rx.flags)

\* new RegExp(regex.source, regex.flags)
CopyRegExp(rx) == NewRegExp(SourceProperty(rx), FlagsProperty(rx))

Max(a, b) == IF a > b THEN a ELSE b
Minimum(a, b) == IF a < b THEN a ELSE b

\* extractContext
extractContext_OffsetsInPage(txt, matchStart, matchEnd, contextChars) ==
    LET start == Max(0, matchStart - contextChars)
        end   == Minimum(Len(txt), matchEnd + contextChars)
    IN  [snippet |-> SubSeq(txt, start + 1, end),
         matchStartInSnippet |-> matchStart,
         matchEndInSnippet |-> matchEnd]

extractContext(txt, matchStart, matchEnd, contextChars) ==
    LET start == Max(0, matchStart - contextChars)
        end   == Minimum(Len(txt), matchEnd + contextChars)
    IN  [snippet |-> SubSeq(txt, start + 1, end),
         matchStartInSnippet |-> matchStart - start,
         matchEndInSnippet |-> matchEnd - start]

\* matches.map(match => ...): the snippet of every match of a page
Snippets_LastFirst(ms, txt, contextChars) ==
    LET es == Entries(ms) IN
    [i \in 1..Len(es) |->
        LET context == extractContext(txt, es[Len(es) + 1 - i].index,
                                      es[Len(es) + 1 - i].index + Len(es[Len(es) + 1 - i].m0),
                                      contextChars)
        IN  [text |-> context.snippet,
             matchStart |-> context.matchStartInSnippet,
             matchEnd |-> context.matchEndInSnippet]]

Snippets(ms, txt, contextChars) ==
    LET es == Entries(ms) IN
    [i \in 1..Len(es) |->
        LET context == extractContext(txt, es[i].index,
                                      es[i].index + Len(es[i].m0), contextChars)
        IN  [text |-> context.snippet,
             matchStart |-> context.matchStartInSnippet,
             matchEnd |-> context.matchEndInSnippet]]

PageResult(pageNum, ms, txt, contextChars) ==
    [page |-> pageNum, matchCount |-> Length(ms), snippets |-> Snippets(ms, txt, contextChars)]

\* !pageText || pageText.trim().length === 0
NoText_Never(txt) == FALSE

NoText(txt) == Len(Trim(txt)) = 0

NoTextError(pageNum) == [page |-> pageNum, error |-> "No text extracted", cause |-> "none"]
SearchFailedError(pageNum, cause) == [page |-> pageNum, error |-> "Search failed", cause |-> cause]

\* An optional numeric argument
Undefined == [given |-> FALSE, val |-> 0]
Given(v) == [given |-> TRUE, val |-> v]

\* SearchPdfSchema.parse: the constraints of the schema
SchemaAccepts(a, pat) ==
    /\ a.paths = "one"
    /\ Len(pat) >= 1
    /\ a.max_results.given => a.max_results.val >= 1
    /\ a.max_pages_scanned.given => a.max_pages_scanned.val >= 1
    /\ a.context_chars >= 10 /\ a.context_chars <= 1000
    /\ a.search_timeout >= 1000 /\ a.search_timeout <= 60000

\* The handler's own call of parseSearchPattern, before it picks a strategy
ValidateSearchPattern_Skipped(pat) == [kind |-> "compiled", regex |-> NoResult, isRegex |-> FALSE]

ValidateSearchPattern(pat) == parseSearchPattern(pat)

\* max_results !== undefined || max_pages_scanned !== undefined
HasLimits_Always(a) == TRUE

HasLimits(a) == a.max_results.given \/ a.max_pages_scanned.given

\* maxPagesScanned && pagesScanned >= maxPagesScanned
PageLimitReached_OnePageLate(a, scanned) ==
    a.max_pages_scanned.given /\ a.max_pages_scanned.val # 0 /\ scanned > a.max_pages_scanned.val

PageLimitReached(a, scanned) ==
    a.max_pages_scanned.given /\ a.max_pages_scanned.val # 0 /\ scanned >= a.max_pages_scanned.val

\* maxResults && totalMatchCount >= maxResults
ResultLimitReached_Exceeded(a, total) ==
    a.max_results.given /\ a.max_results.val # 0 /\ total > a.max_results.val

ResultLimitReached(a, total) ==
    a.max_results.given /\ a.max_results.val # 0 /\ total >= a.max_results.val

ErrorResponse(stage) == [kind |-> "error", stage |-> stage]

\* searchResults.matches.reduce((sum, page) => sum + page.matchCount, 0)
RECURSIVE SumMatchCount(_)
SumMatchCount_PagesOnly(rs) == Len(rs)

SumMatchCount(rs) == IF rs = <<>> THEN 0 ELSE Head(rs).matchCount + SumMatchCount(Tail(rs))

\* The summary and the content the handler builds from what the search
\* function returned.
Envelope(strategy, rs, errs, scanned, completed, stoppedReason) ==
    [kind |-> "result",
     summary |-> [total_matches |-> SumMatchCount(rs),
                  pages_with_matches |-> Len(rs),
                  pages_scanned |-> scanned,
                  total_pages_in_range |-> Len(rangeResult.pages),
                  search_strategy |-> strategy,
                  is_regex |-> compiled.isRegex,
                  completed |-> completed,
                  stopped_reason |-> stoppedReason,
                  errors |-> Len(errs)],
     matches |-> rs,
     errors |-> errs]

handlerVars == <<args, fileOk, doc, otherToolVars>>
loopVars == <<searchRegex, idx, pageTexts, results, errors, totalMatchCount, pagesScanned,
              extractLog, scanLog>>

\* SearchPdfSchema.parse(args): a ZodError ends the call.
ParseArgs ==
    /\ hPc = "start"
    /\ IF SchemaAccepts(args, pattern)
       THEN hPc' = "load" /\ UNCHANGED response
       ELSE hPc' = "done" /\ response' = ErrorResponse("arguments")
    /\ UNCHANGED <<rangeVars, patternVars, scanVars, handlerVars, loopVars>>

\* fileExists, safeReadFile, PDFDocument.load and getPageCount
LoadDocument ==
    /\ hPc = "load"
    /\ IF fileOk
       THEN hPc' = "range" /\ totalPages' = Len(doc) /\ UNCHANGED response
       ELSE hPc' = "done" /\ response' = ErrorResponse("file") /\ UNCHANGED totalPages
    /\ UNCHANGED <<rangeStr, rangeResult, patternVars, scanVars, handlerVars, loopVars>>

\* parsePageRange(page_range, totalPages)
ResolvePages ==
    /\ hPc = "range"
    /\ rangeResult' = parsePageRange(rangeStr, totalPages)
    /\ IF rangeResult'.kind = "pages"
       THEN hPc' = "pattern" /\ UNCHANGED response
       ELSE hPc' = "done" /\ response' = ErrorResponse("page range")
    /\ UNCHANGED <<rangeStr, totalPages, patternVars, scanVars, handlerVars, loopVars>>

\* The validation of the pattern and the choice of the strategy
ValidatePattern ==
    /\ hPc = "pattern"
    /\ compiled' = ValidateSearchPattern(pattern)
    /\ IF compiled'.kind = "error"
       THEN hPc' = "done" /\ response' = ErrorResponse("search pattern")
       ELSE /\ hPc' = IF HasLimits(args) THEN "pbp_begin" ELSE "cmp_extract"
            /\ UNCHANGED response
    /\ UNCHANGED <<rangeVars, pattern, scanVars, handlerVars, loopVars>>

\* searchPdfPageByPage up to its loop: parseSearchPattern; what it throws
\* reaches the catch of the handler.
PbpBegin ==
    /\ hPc = "pbp_begin"
    /\ LET parsed == parseSearchPattern(pattern) IN
       IF parsed.kind = "error"
       THEN /\ hPc' = "done"
            /\ response' = ErrorResponse("search pattern")
            /\ UNCHANGED <<searchRegex, idx>>
       ELSE /\ searchRegex' = parsed.regex
            /\ idx' = 1
            /\ hPc' = "pbp_page"
            /\ UNCHANGED response
    /\ UNCHANGED <<rangeVars, patternVars, scanVars, handlerVars, pageTexts, results, errors,
                   totalMatchCount, pagesScanned, extractLog, scanLog>>

\* One turn of the page loop of searchPdfPageByPage, up to the call of
\* searchWithTimeout: the page limit, pagesScanned++, the extraction of the
\* page's text, which the backend may fail, and the test for no text.  After
\* the last page the function returns and the handler answers.
PbpPage ==
    /\ hPc = "pbp_page"
    /\ IF idx > Len(rangeResult.pages)
       THEN /\ response' = Envelope("page_by_page", results, errors, pagesScanned,
                                    TRUE, "completed")
            /\ hPc' = "done"
            /\ UNCHANGED <<scanVars, idx, errors, pagesScanned, extractLog, scanLog>>
       ELSE IF PageLimitReached(args, pagesScanned)
       THEN /\ response' = Envelope("page_by_page", results, errors, pagesScanned,
                                    FALSE, "max_pages")
            /\ hPc' = "done"
            /\ UNCHANGED <<scanVars, idx, errors, pagesScanned, extractLog, scanLog>>
       ELSE LET pageNum == rangeResult.pages[idx] IN
            /\ pagesScanned' = pagesScanned + 1
            /\ extractLog' = Append(extractLog, pageNum)
            /\ UNCHANGED response
            /\ \E backendOk \in BOOLEAN :
                   IF ~backendOk
                   THEN /\ errors' = Append(errors, SearchFailedError(pageNum, "backend"))
                        /\ idx' = idx + 1
                        /\ UNCHANGED <<scanVars, hPc, scanLog>>
                   ELSE IF NoText(doc[pageNum])
                   THEN /\ errors' = Append(errors, NoTextError(pageNum))
                        /\ idx' = idx + 1
                        /\ UNCHANGED <<scanVars, hPc, scanLog>>
                   ELSE /\ BeginScan(doc[pageNum], CopyRegExp(searchRegex))
                        /\ scanLog' = Append(scanLog, pageNum)
                        /\ hPc' = "pbp_scan"
                        /\ UNCHANGED <<outcome, idx, errors>>
    /\ UNCHANGED <<rangeVars, patternVars, handlerVars, searchRegex, pageTexts, results,
                   totalMatchCount>>

\* The rest of the turn, once searchWithTimeout has settled: the page result,
\* totalMatchCount and the result limit, or the catch block.
PbpAwait ==
    /\ hPc = "pbp_scan"
    /\ scanPc = "done"
    /\ LET pageNum == rangeResult.pages[idx]
           settled == AfterTimers(promise, timer)
       IN  /\ promise' = settled
           /\ timer' = ClearTimeout(timer)
           /\ scanPc' = "idle"
           /\ IF settled.state = "resolved"
              THEN IF Length(matches) > 0
                   THEN LET rs    == Append(results, PageResult(pageNum, matches, text,
                                                                args.context_chars))
                            total == totalMatchCount + Length(matches)
                        IN  /\ results' = rs
                            /\ totalMatchCount' = total
                            /\ UNCHANGED errors
                            /\ IF ResultLimitReached(args, total)
                               THEN /\ response' = Envelope("page_by_page", rs, errors,
                                                            pagesScanned, FALSE, "max_results")
                                    /\ hPc' = "done"
                                    /\ UNCHANGED idx
                               ELSE /\ idx' = idx + 1
                                    /\ hPc' = "pbp_page"
                                    /\ UNCHANGED response
                   ELSE /\ idx' = idx + 1
                        /\ hPc' = "pbp_page"
                        /\ UNCHANGED <<results, errors, totalMatchCount, response>>
              ELSE /\ errors' = Append(errors, SearchFailedError(pageNum, settled.error))
                   /\ idx' = idx + 1
                   /\ hPc' = "pbp_page"
                   /\ UNCHANGED <<results, totalMatchCount, response>>
    /\ UNCHANGED <<rangeVars, patternVars, text, regex, matches, outcome, handlerVars,
                   searchRegex, pageTexts, pagesScanned, extractLog, scanLog>>

\* searchPdfComprehensive up to its loop: the text of all the pages is
\* extracted, then the pattern is parsed; a failure of either is rethrown
\* and reaches the catch of the handler.
CmpExtract ==
    /\ hPc = "cmp_extract"
    /\ \E backendOk \in BOOLEAN :
           IF ~backendOk
           THEN /\ response' = ErrorResponse("comprehensive search")
                /\ hPc' = "done"
                /\ UNCHANGED <<pageTexts, searchRegex, idx, extractLog>>
           ELSE /\ pageTexts' = [i \in 1..Len(rangeResult.pages) |-> doc[rangeResult.pages[i]]]
                /\ extractLog' = extractLog \o rangeResult.pages
                /\ LET parsed == parseSearchPattern(pattern) IN
                   IF parsed.kind = "error"
                   THEN /\ response' = ErrorResponse("comprehensive search")
                        /\ hPc' = "done"
                        /\ UNCHANGED <<searchRegex, idx>>
                   ELSE /\ searchRegex' = parsed.regex
                        /\ idx' = 1
                        /\ hPc' = "cmp_page"
                        /\ UNCHANGED response
    /\ UNCHANGED <<rangeVars, patternVars, scanVars, handlerVars, results, errors,
                   totalMatchCount, pagesScanned, scanLog>>

\* One turn of the page loop of searchPdfComprehensive, up to the call of
\* searchWithTimeout.  After the last page the function returns and the
\* handler adds completed and stoppedReason and answers.
CmpPage ==
    /\ hPc = "cmp_page"
    /\ IF idx > Len(rangeResult.pages)
       THEN /\ response' = Envelope("extract_all", results, errors, Len(rangeResult.pages),
                                    TRUE, "completed")
            /\ hPc' = "done"
            /\ UNCHANGED <<scanVars, idx, errors, scanLog>>
       ELSE LET pageNum == rangeResult.pages[idx] IN
            /\ UNCHANGED response
            /\ IF NoText(pageTexts[idx])
               THEN /\ errors' = Append(errors, NoTextError(pageNum))
                    /\ idx' = idx + 1
                    /\ UNCHANGED <<scanVars, hPc, scanLog>>
               ELSE /\ BeginScan(pageTexts[idx], CopyRegExp(searchRegex))
                    /\ scanLog' = Append(scanLog, pageNum)
                    /\ hPc' = "cmp_scan"
                    /\ UNCHANGED <<outcome, idx, errors>>
    /\ UNCHANGED <<rangeVars, patternVars, handlerVars, searchRegex, pageTexts, results,
                   totalMatchCount, pagesScanned, extractLog>>

\* The rest of the turn, once searchWithTimeout has settled.
CmpAwait ==
    /\ hPc = "cmp_scan"
    /\ scanPc = "done"
    /\ LET pageNum == rangeResult.pages[idx]
           settled == AfterTimers(promise, timer)
       IN  /\ promise' = settled
           /\ timer' = ClearTimeout(timer)
           /\ scanPc' = "idle"
           /\ idx' = idx + 1
           /\ hPc' = "cmp_page"
           /\ IF settled.state = "resolved"
              THEN /\ results' = IF Length(matches) > 0
                                 THEN Append(results, PageResult(pageNum, matches, text,
                                                                 args.context_chars))
                                 ELSE results
                   /\ UNCHANGED errors
              ELSE /\ errors' = Append(errors, SearchFailedError(pageNum, settled.error))
                   /\ UNCHANGED results
    /\ UNCHANGED <<rangeVars, patternVars, text, regex, matches, outcome, handlerVars,
                   searchRegex, pageTexts, totalMatchCount, pagesScanned, extractLog,
                   scanLog, response>>

(***************************************************************************)
(* Specification of a search_pdf call: any arguments from the sets below   *)
(* on any document of up to MaxDocPages pages.  The pattern without the g  *)
(* flag is searched in the documents of NonGlobalDocs, all pages, with and *)
(* without a page limit.                                                   *)
(***************************************************************************)
SearchPatterns ==
    { <<>>, <<"a">>, <<"/", "a", "|", ".", "/", "g", "i">>, <<"/", "a", "|", "/", "g">>,
      <<"/", "a", "/", "x">>, <<"/", "(", "/", "g">> }
NonGlobalPattern == <<"/", "a", "/">>
NonGlobalDocs == { <<<<"a">>, <<".">>>> }
SearchRanges == { <<"1", ":">>, <<"2", ",", "1">>, <<"3">>, <<"x">> }
DocTexts == { <<>>, <<"a">>, <<"A", "a">>, <<".">> }
Documents == UNION {[1..n -> DocTexts] : n \in 1..MaxDocPages}
OptionalLimits == {Undefined} \cup {Given(v) : v \in 0..MaxLimit}

AnyArgs ==
    [paths : {"one", "none"},
     max_results : OptionalLimits,
     max_pages_scanned : OptionalLimits,
     context_chars : {9, 10},
     search_timeout : {1000, 60001}]

InitSearch ==
    /\ \/ /\ args \in AnyArgs
          /\ pattern \in SearchPatterns
          /\ rangeStr \in SearchRanges
          /\ \/ fileOk = TRUE /\ doc \in Documents
             \/ fileOk = FALSE /\ doc = <<>>
       \/ /\ args \in {a \in AnyArgs : /\ SchemaAccepts(a, NonGlobalPattern)
                                      /\ a.max_results = Undefined
                                      /\ a.max_pages_scanned \in {Undefined, Given(2)}}
          /\ pattern = NonGlobalPattern
          /\ rangeStr = <<"1", ":">>
          /\ fileOk = TRUE
          /\ doc \in NonGlobalDocs
    /\ totalPages = 0
    /\ rangeResult = NoResult
    /\ compiled = NoResult
    /\ ScanIdle
    /\ hPc = "start"
    /\ searchRegex = NoResult
    /\ idx = 0
    /\ pageTexts = <<>>
    /\ results = <<>>
    /\ errors = <<>>
    /\ totalMatchCount = 0
    /\ pagesScanned = 0
    /\ extractLog = <<>>
    /\ scanLog = <<>>
    /\ response = NoResult
    /\ OtherToolsIdle

NextSearch ==
    \/ ParseArgs
    \/ LoadDocument
    \/ ResolvePages
    \/ ValidatePattern
    \/ PbpBegin
    \/ PbpPage
    \/ PbpAwait
    \/ CmpExtract
    \/ CmpPage
    \/ CmpAwait
    \/ ScanStep
    \/ DeadlinePasses

SpecSearch == InitSearch /\ [][NextSearch]_vars

(***************************************************************************)
(* Specification of the snippet window: one call of extractContext for any *)
(* span [matchStart, matchEnd) of any page text and any context size.      *)
(***************************************************************************)
InitContext ==
    /\ text \in StringsUpTo(TextAlphabet, MaxPageLen)
    /\ contextArgs \in {[matchStart |-> s, matchEnd |-> e, contextChars |-> c] :
                           s \in 0..Len(text), e \in 0..Len(text), c \in 0..MaxContextChars}
    /\ contextArgs.matchStart <= contextArgs.matchEnd
    /\ contextResult = NoResult
    /\ RangeIdle
    /\ PatternIdle
    /\ regex = NoResult
    /\ matches = <<>>
    /\ scanPc = "idle"
    /\ promise = [state |-> "none", error |-> "none"]
    /\ timer = [armed |-> FALSE, expired |-> FALSE]
    /\ outcome = NoResult
    /\ SearchIdle
    /\ OutlineIdle
    /\ ConsoleIdle
    /\ DownloadIdle

CallExtractContext ==
    /\ hPc = "idle"
    /\ contextArgs # NoResult
    /\ contextResult = NoResult
    /\ contextResult' = extractContext(text, contextArgs.matchStart, contextArgs.matchEnd,
                                       contextArgs.contextChars)
    /\ UNCHANGED <<rangeVars, patternVars, scanVars, contextArgs, args, fileOk, doc, hPc,
                   loopVars, response, outlineVars, consoleVars, downloadVars>>

NextContext == CallExtractContext

SpecContext == InitContext /\ [][NextContext]_vars

(***************************************************************************)
(* The outline functions.  A raw outline item, as pdfDoc.getOutline()      *)
(* gives it, has a title, a dest ("none", or [kind, page] with kind        *)
(* "resolved" when the page reference is found among the pages and         *)
(* "unresolved" when it is not), a url flag and its items.  An OutlineItem *)
(* has the optional fields page and children as [given, val].              *)
(***************************************************************************)
NoDest == [kind |-> "none", page |-> 0]

\* parseDestination: the 1-based page number, or undefined
parseDestination_AlwaysPage(dest) == Given(dest.page)

parseDestination(dest) ==
    IF dest.kind = "resolved" THEN Given(dest.page) ELSE Undefined

\* maxDepth !== undefined && level >= maxDepth
DepthReached_OneLevelLate(level, maxDepth) == maxDepth.given /\ level > maxDepth.val

DepthReached(level, maxDepth) == maxDepth.given /\ level >= maxDepth.val

\* processOutlineItems
RECURSIVE processOutlineItems(_, _, _, _)
processOutlineItems(items, level, maxDepth, includeDestinations) ==
    IF Len(items) = 0 THEN <<>>
    ELSE IF DepthReached(level, maxDepth) THEN <<>>
    ELSE [i \in 1..Len(items) |->
             LET item == items[i] IN
             [title |-> item.title,
              level |-> level,
              url |-> item.url,
              page |-> IF includeDestinations /\ item.dest.kind # "none"
                       THEN parseDestination(item.dest) ELSE Undefined,
              destination |-> includeDestinations /\ item.dest.kind # "none",
              children |-> IF Len(item.items) > 0
                           THEN [given |-> TRUE,
                                 val |-> processOutlineItems(item.items, level + 1, maxDepth,
                                                             includeDestinations)]
                           ELSE [given |-> FALSE, val |-> <<>>]]]

\* flattenOutlineItems
RECURSIVE flattenOutlineItems(_)
flattenOutlineItems_TopLevelOnly(items) ==
    [i \in 1..Len(items) |-> [items[i] EXCEPT !.children = [given |-> FALSE, val |-> <<>>]]]

flattenOutlineItems(items) ==
    IF items = <<>> THEN <<>>
    ELSE LET item == Head(items) IN
         <<[item EXCEPT !.children = [given |-> FALSE, val |-> <<>>]]>>
             \o (IF item.children.given /\ Len(item.children.val) > 0
                 THEN flattenOutlineItems(item.children.val) ELSE <<>>)
             \o flattenOutlineItems(Tail(items))

ZeroStats == [total_items |-> 0, max_depth |-> 0, items_with_pages |-> 0, items_with_urls |-> 0]

\* countItems of calculateOutlineStats: what the first n items of the list,
\* with all the items below them, add to the four counters
RECURSIVE countItems(_, _)
countItems_NotBelow(items, n) ==
    [total_items |-> n,
     max_depth |-> IF n = 0 THEN 0 ELSE items[1].level + 1,
     items_with_pages |-> Cardinality({i \in 1..n : items[i].page.given}),
     items_with_urls |-> Cardinality({i \in 1..n : items[i].url})]

countItems(items, n) ==
    IF n = 0 THEN ZeroStats
    ELSE LET before == countItems(items, n - 1)
             item   == items[n]
             below  == IF item.children.given /\ Len(item.children.val) > 0
                       THEN countItems(item.children.val, Len(item.children.val))
                       ELSE ZeroStats
         IN  [total_items |-> before.total_items + 1 + below.total_items,
              max_depth |-> Max(Max(before.max_depth, item.level + 1), below.max_depth),
              items_with_pages |-> before.items_with_pages
                                       + (IF item.page.given THEN 1 ELSE 0)
                                       + below.items_with_pages,
              items_with_urls |-> before.items_with_urls
                                      + (IF item.url THEN 1 ELSE 0)
                                      + below.items_with_urls]

calculateOutlineStats(items) == countItems(items, Len(items))

\* extractPdfOutline, after getDocument and getOutline have succeeded
NoOutline_OnlyNull(raw) == raw.kind = "null"

NoOutline(raw) == raw.kind = "null" \/ Len(raw.items) = 0

OutlineOf(raw, options) ==
    IF NoOutline(raw)
    THEN [kind |-> "result", has_outline |-> FALSE, outline_items |-> <<>>,
          summary |-> ZeroStats]
    ELSE LET processed == processOutlineItems(raw.items, 0, options.maxDepth,
                                              options.includeDestinations)
             final     == IF options.flattenStructure
                          THEN flattenOutlineItems(processed) ELSE processed
         IN  [kind |-> "result", has_outline |-> TRUE, outline_items |-> final,
              summary |-> calculateOutlineStats(final)]

(***************************************************************************)
(* Specification of the outline extraction: one call of extractPdfOutline  *)
(* on a document whose backend fails, has no outline, or has an outline of *)
(* up to MaxOutlineDepth levels in which every item of a level has the     *)
(* same number of items, up to MaxOutlineWidth, or only the first item of  *)
(* every list has any.  The title of an item is its path from the top.     *)
(***************************************************************************)
ItemKinds ==
    << [dest |-> "none", url |-> FALSE], [dest |-> "resolved", url |-> FALSE],
       [dest |-> "unresolved", url |-> FALSE], [dest |-> "none", url |-> TRUE] >>

RECURSIVE RawItems(_, _, _, _, _)
RawItems(level, path, widths, firstOnly, shift) ==
    IF level >= MaxOutlineDepth THEN <<>>
    ELSE [i \in 1..widths[level + 1] |->
             LET kind == ItemKinds[((level + i + shift) % Len(ItemKinds)) + 1] IN
             [title |-> Append(path, i),
              dest |-> IF kind.dest = "none" THEN NoDest ELSE [kind |-> kind.dest, page |-> i],
              url |-> kind.url,
              items |-> IF firstOnly /\ i > 1 THEN <<>>
                        ELSE RawItems(level + 1, Append(path, i), widths, firstOnly, shift)]]

RawOutlines ==
    {[kind |-> "failure"], [kind |-> "null"]} \cup
    {[kind |-> "items", items |-> RawItems(0, <<>>, widths, firstOnly, shift)] :
        widths \in [1..MaxOutlineDepth -> 0..MaxOutlineWidth],
        firstOnly \in BOOLEAN, shift \in 0..(Len(ItemKinds) - 1)}

OutlineOptions ==
    [includeDestinations : BOOLEAN,
     maxDepth : {Undefined} \cup {Given(d) : d \in 1..(MaxOutlineDepth + 1)},
     flattenStructure : BOOLEAN]

InitOutline ==
    /\ outline \in RawOutlines
    /\ outlineOptions \in OutlineOptions
    /\ outlineResult = NoResult
    /\ RangeIdle
    /\ PatternIdle
    /\ ScanIdle
    /\ SearchIdle
    /\ ContextIdle
    /\ ConsoleIdle
    /\ DownloadIdle

\* extractPdfOutline: what getDocument or getOutline throws is rethrown.
CallExtractPdfOutline ==
    /\ hPc = "idle"
    /\ outline # NoResult
    /\ outlineResult = NoResult
    /\ outlineResult' = IF outline.kind = "failure"
                        THEN [kind |-> "error", error |-> "PDF outline extraction failed"]
                        ELSE OutlineOf(outline, outlineOptions)
    /\ UNCHANGED <<rangeVars, patternVars, scanVars, contextVars, outline, outlineOptions,
                   args, fileOk, doc, hPc, loopVars, response, consoleVars, downloadVars>>

NextOutline == CallExtractPdfOutline

SpecOutline == InitOutline /\ [][NextOutline]_vars

(***************************************************************************)
(* Console suppression around the backend calls of extractTextNative, for  *)
(* tool calls that the host dispatches without waiting for one another: a  *)
(* call runs from one await to the next, and between two awaits of one     *)
(* call the other calls may run.                                           *)
(***************************************************************************)
MaxCalls == 2
MaxExtractPages == 2

Calls == 1..MaxCalls

\* suppressConsoleOutput and restoreConsoleOutput assign the four console
\* methods: no-ops, or the methods saved in originalConsole.
suppressConsoleOutput == "silenced"
restoreConsoleOutput == "original"

IdleCall == [pc |-> "idle", pageNumbers |-> 0, i |-> 0, texts |-> <<>>]

\* The for loop after a page's text was pushed (the console was restored in
\* the finally block): the next page begins with suppressConsoleOutput and
\* getPage, and after the last page the texts are returned.
NextPageOrReturn(c, call) ==
    IF call.i < call.pageNumbers
    THEN /\ console' = suppressConsoleOutput
         /\ nativeCalls' = [nativeCalls EXCEPT ![c] = [call EXCEPT !.pc = "getPage", !.i = @ + 1]]
    ELSE /\ console' = restoreConsoleOutput
         /\ nativeCalls' = [nativeCalls EXCEPT ![c] = [call EXCEPT !.pc = "returned"]]

ConsoleFrame ==
    UNCHANGED <<rangeVars, patternVars, scanVars, args, fileOk, doc, hPc, loopVars, response,
                contextVars, outlineVars, downloadVars>>

\* extractTextNative up to its first await: suppressConsoleOutput and
\* getDocument.
CallExtractTextNative ==
    /\ \E c \in Calls, n \in 0..MaxExtractPages :
           /\ nativeCalls[c].pc = "idle"
           /\ nativeCalls' = [nativeCalls EXCEPT ![c] = [IdleCall EXCEPT !.pc = "getDocument",
                                                                      !.pageNumbers = n]]
    /\ console' = suppressConsoleOutput
    /\ ConsoleFrame

\* getDocument settles: the finally block restores the console; a rejection
\* is thrown to the caller, otherwise the page loop begins.
GetDocumentSettles ==
    /\ \E c \in Calls, ok \in BOOLEAN :
           /\ nativeCalls[c].pc = "getDocument"
           /\ IF ok
              THEN NextPageOrReturn(c, nativeCalls[c])
              ELSE /\ console' = restoreConsoleOutput
                   /\ nativeCalls' = [nativeCalls EXCEPT ![c].pc = "threw"]
    /\ ConsoleFrame

\* getPage settles: getTextContent is called next; a rejection goes through
\* the finally block to the catch, which pushes ''.
GetPageSettles ==
    /\ \E c \in Calls, ok \in BOOLEAN :
           /\ nativeCalls[c].pc = "getPage"
           /\ IF ok
              THEN /\ nativeCalls' = [nativeCalls EXCEPT ![c].pc = "getTextContent"]
                   /\ UNCHANGED console
              ELSE NextPageOrReturn(c, [nativeCalls[c] EXCEPT !.texts = Append(@, "")])
    /\ ConsoleFrame

\* getTextContent settles: the finally block restores the console, and the
\* page's text, or '' after a rejection, is pushed.
GetTextContentSettles ==
    /\ \E c \in Calls, t \in {"text", ""} :
           /\ nativeCalls[c].pc = "getTextContent"
           /\ NextPageOrReturn(c, [nativeCalls[c] EXCEPT !.texts = Append(@, t)])
    /\ ConsoleFrame

InitConsole ==
    /\ console = "original"
    /\ nativeCalls = [c \in Calls |-> IdleCall]
    /\ RangeIdle
    /\ PatternIdle
    /\ ScanIdle
    /\ SearchIdle
    /\ ContextIdle
    /\ OutlineIdle
    /\ DownloadIdle

NextConsole ==
    CallExtractTextNative \/ GetDocumentSettles \/ GetPageSettles \/ GetTextContentSettles

SpecConsole == InitConsole /\ [][NextConsole]_vars

(***************************************************************************)
(* downloadPdfFromUrl: calls for the same filePath, dispatched without     *)
(* waiting for one another.  The file at filePath is known by whether it   *)
(* exists, by the call whose write stream created it (0 for a file that    *)
(* was there before every call) and by what it holds.                      *)
(***************************************************************************)
Absent == [exists |-> FALSE, creator |-> 0, content |-> "none"]
OldFile == [exists |-> TRUE, creator |-> 0, content |-> "old"]

IdleDownload == [pc |-> "idle", body |-> "none", ino |-> 0, error |-> "none",
                 before |-> Absent, result |-> NoResult]

\* What fetch settles with: a rejection (AbortError after OPERATION_TIMEOUT,
\* or another error), a status that is not ok, a content-length above
\* MAX_FILE_SIZE, no body, or a body that is empty, a PDF within the size
\* limit, or larger than MAX_FILE_SIZE.
Fetched ==
    [kind : {"rejected"}, error : {"AbortError", "Error"}, body : {"none"}]
        \cup [kind : {"not ok", "content-length too large", "no body"},
              error : {"none"}, body : {"none"}]
        \cup [kind : {"body"}, error : {"none"}, body : {"empty", "pdf", "oversized"}]

Failure(err) == [success |-> FALSE, error |-> err]
Success == [success |-> TRUE, error |-> "none"]

Return(c, res) == downloads' = [downloads EXCEPT ![c].pc = "returned", ![c].result = res]

\* createWriteStream(filePath): the file is created, or truncated when it
\* is there.
createWriteStream(c) ==
    IF targetFile.exists
    THEN [targetFile EXCEPT !.content = "empty"]
    ELSE [exists |-> TRUE, creator |-> c, content |-> "empty"]

\* fs.promises.unlink(filePath), where a missing file is no error
unlink == Absent

DownloadFrame ==
    UNCHANGED <<rangeVars, patternVars, scanVars, args, fileOk, doc, hPc, loopVars, response,
                contextVars, outlineVars, consoleVars>>

\* downloadPdfFromUrl up to the await of fileExists(filePath): the download
\* directory is made, which may fail, and the file name is fixed.
CallDownloadPdfFromUrl ==
    /\ \E c \in Calls, dirOk \in BOOLEAN :
           /\ downloads[c].pc = "idle"
           /\ IF dirOk
              THEN downloads' = [downloads EXCEPT ![c].pc = "fileExists",
                                                  ![c].before = targetFile]
              ELSE downloads' = [downloads EXCEPT ![c].pc = "returned",
                                                  ![c].before = targetFile,
                                                  ![c].result = Failure("Download failed")]
    /\ UNCHANGED targetFile
    /\ DownloadFrame

\* fileExists settles: an existing file ends the call, otherwise fetch is
\* called.
FileExistsSettles ==
    /\ \E c \in Calls :
           /\ downloads[c].pc = "fileExists"
           /\ IF targetFile.exists
              THEN Return(c, Failure("File already exists"))
              ELSE downloads' = [downloads EXCEPT ![c].pc = "fetch"]
    /\ UNCHANGED targetFile
    /\ DownloadFrame

\* fetch settles: a rejection goes to the catch block; a response is
\* checked, then createWriteStream opens the file, and a response without a
\* body ends the call there; otherwise the body is piped to the file.
FetchSettles ==
    /\ \E c \in Calls, r \in Fetched :
           /\ downloads[c].pc = "fetch"
           /\ CASE r.kind = "rejected" ->
                       /\ downloads' = [downloads EXCEPT ![c].pc = "cleanup",
                                                         ![c].error = r.error]
                       /\ UNCHANGED targetFile
                [] r.kind = "not ok" ->
                       /\ Return(c, Failure("HTTP status"))
                       /\ UNCHANGED targetFile
                [] r.kind = "content-length too large" ->
                       /\ Return(c, Failure("File too large"))
                       /\ UNCHANGED targetFile
                [] r.kind = "no body" ->
                       /\ targetFile' = createWriteStream(c)
                       /\ Return(c, Failure("Empty response body"))
                [] r.kind = "body" ->
                       /\ targetFile' = createWriteStream(c)
                       /\ downloads' = [downloads EXCEPT ![c].pc = "pipeline",
                                                         ![c].body = r.body,
                                                         ![c].ino = targetFile'.creator]
    /\ DownloadFrame

\* pipeline settles: the body was written to the file the stream opened, or
\* the transfer failed after part of it.  What is written reaches the file
\* at filePath when that is still the file the stream opened.
PipelineSettles ==
    /\ \E c \in Calls, finished \in BOOLEAN :
           /\ downloads[c].pc = "pipeline"
           /\ LET written == IF finished \/ downloads[c].body = "empty"
                             THEN downloads[c].body ELSE "partial"
              IN  targetFile' = IF targetFile.exists /\ targetFile.creator = downloads[c].ino
                                THEN [targetFile EXCEPT !.content = written]
                                ELSE targetFile
           /\ downloads' = [downloads EXCEPT ![c].pc = IF finished THEN "stat" ELSE "cleanup",
                                             ![c].error = IF finished THEN "none" ELSE "Error"]
    /\ DownloadFrame

\* stat(filePath) settles: a missing file throws into the catch block; a
\* size of 0 ends the call; a size above MAX_FILE_SIZE leads to the unlink
\* of the file; otherwise the header is read.
StatSettles ==
    /\ \E c \in Calls :
           /\ downloads[c].pc = "stat"
           /\ IF ~targetFile.exists
              THEN downloads' = [downloads EXCEPT ![c].pc = "cleanup", ![c].error = "Error"]
              ELSE IF targetFile.content = "empty"
              THEN Return(c, Failure("Downloaded file is empty"))
              ELSE IF targetFile.content = "oversized"
              THEN downloads' = [downloads EXCEPT ![c].pc = "unlink oversized"]
              ELSE downloads' = [downloads EXCEPT ![c].pc = "readFile"]
    /\ UNCHANGED targetFile
    /\ DownloadFrame

\* The oversized file is unlinked, any failure of that ignored.
UnlinkOversized ==
    /\ \E c \in Calls :
           /\ downloads[c].pc = "unlink oversized"
           /\ Return(c, Failure("Downloaded file too large"))
    /\ targetFile' = unlink
    /\ DownloadFrame

\* readFile settles: the header only decides a warning.
ReadFileSettles ==
    /\ \E c \in Calls :
           /\ downloads[c].pc = "readFile"
           /\ Return(c, Success)
    /\ UNCHANGED targetFile
    /\ DownloadFrame

\* The catch block: the file at filePath is unlinked if it exists.
CleanUpAfterError ==
    /\ \E c \in Calls :
           /\ downloads[c].pc = "cleanup"
           /\ Return(c, Failure(IF downloads[c].error = "AbortError"
                                THEN "Download timeout" ELSE "Download failed"))
    /\ targetFile' = unlink
    /\ DownloadFrame

InitDownload ==
    /\ targetFile \in {Absent, OldFile}
    /\ downloads = [c \in Calls |-> IdleDownload]
    /\ RangeIdle
    /\ PatternIdle
    /\ ScanIdle
    /\ SearchIdle
    /\ ContextIdle
    /\ OutlineIdle
    /\ ConsoleIdle

NextDownload ==
    \/ CallDownloadPdfFromUrl
    \/ FileExistsSettles
    \/ FetchSettles
    \/ PipelineSettles
    \/ StatSettles
    \/ UnlinkOversized
    \/ ReadFileSettles
    \/ CleanUpAfterError

SpecDownload == InitDownload /\ [][NextDownload]_vars

(***************************************************************************)
(* Properties of the range parser.                                         *)
(***************************************************************************)
Elements(seq) == {seq[i] : i \in 1..Len(seq)}

IsDigits(s) == s # <<>> /\ \A i \in 1..Len(s) : s[i] \in DigitChars

\* The number a string of decimal digits writes.
RECURSIVE DecimalValue(_)
DecimalValue(s) ==
    IF s = <<>> THEN 0
    ELSE 10 * DecimalValue(SubSeq(s, 1, Len(s) - 1)) + DigitVal(s[Len(s)])

\* The comma-separated pieces of the expression, the empty ones left out.
Segments == SplitSegments(Trim(rangeStr))

ColonCount(s) == Cardinality({i \in 1..Len(s) : s[i] = ":"})
BeforeColon(s) == SubSeq(s, 1, (CHOOSE i \in 1..Len(s) : s[i] = ":") - 1)
AfterColon(s) == SubSeq(s, (CHOOSE i \in 1..Len(s) : s[i] = ":") + 1, Len(s))

\* The four forms of a segment: p, a:b, a: and :b.
IsSinglePage(s) == IsDigits(s)
IsInterval(s) ==
    /\ ColonCount(s) = 1
    /\ BeforeColon(s) = <<>> \/ IsDigits(BeforeColon(s))
    /\ AfterColon(s) = <<>> \/ IsDigits(AfterColon(s))
    /\ BeforeColon(s) # <<>> \/ AfterColon(s) # <<>>
IsCanonical(s) == IsSinglePage(s) \/ IsInterval(s)

Min(a, b) == IF a < b THEN a ELSE b

\* What a segment in one of the four forms denotes for a document of n pages.
Denotes(s, n) ==
    IF IsSinglePage(s) THEN {DecimalValue(s)}
    ELSE LET a == IF BeforeColon(s) = <<>> THEN 1 ELSE DecimalValue(BeforeColon(s))
             b == IF AfterColon(s) = <<>> THEN n ELSE Min(DecimalValue(AfterColon(s)), n)
         IN  a..b

StrictlyIncreasing(seq) == \A i \in 1..(Len(seq) - 1) : seq[i] < seq[i + 1]

\* C1: whenever parsePageRange returns a page list for a page count N >= 1,
\* the list is strictly increasing and every value lies in 1..N.
C1_PageSetInvariant ==
    (rangeResult.kind = "pages" /\ totalPages >= 1)
        => /\ StrictlyIncreasing(rangeResult.pages)
           /\ \A i \in 1..Len(rangeResult.pages) :
                  rangeResult.pages[i] \in 1..totalPages

\* C1 witness: a call that returned pages for two segments given in
\* descending order.
C1_Witness ==
    /\ rangeResult.kind = "pages"
    /\ totalPages >= 1
    /\ Len(Segments) = 2
    /\ parseSinglePageRange(Segments[1], totalPages).pages[1]
           > parseSinglePageRange(Segments[2], totalPages).pages[1]
    /\ Len(rangeResult.pages) >= 2

\* C2: for an expression whose segments have the forms p, a:b, a: and :b,
\* a returned page list is the ascending enumeration of the union of what the
\* segments denote, an end beyond N being clamped to N.
C2_SortedUnionOfSegments ==
    (rangeResult.kind = "pages" /\ \A i \in 1..Len(Segments) : IsCanonical(Segments[i]))
        => /\ Elements(rangeResult.pages)
                = UNION {Denotes(Segments[i], totalPages) : i \in 1..Len(Segments)}
           /\ StrictlyIncreasing(rangeResult.pages)

\* C2 witness: two segments, one with an explicit end beyond N, returned pages.
C2_Witness ==
    /\ rangeResult.kind = "pages"
    /\ Len(Segments) >= 2
    /\ \A i \in 1..Len(Segments) : IsCanonical(Segments[i])
    /\ \E i \in 1..Len(Segments) :
           /\ IsInterval(Segments[i])
           /\ AfterColon(Segments[i]) # <<>>
           /\ DecimalValue(AfterColon(Segments[i])) > totalPages

\* A bound written as an optional minus sign and digits, and its value.
IsSignedNumber(s) == IsDigits(s) \/ (s # <<>> /\ Head(s) = "-" /\ IsDigits(Tail(s)))
SignedValue(s) == IF Head(s) = "-" THEN 0 - DecimalValue(Tail(s)) ELSE DecimalValue(s)

\* The segments the contract rejects: a page or explicit start beyond N, a
\* non-positive bound, an explicit start greater than an explicit end.
IsRejectedSegment(s, n) ==
    \/ IsSignedNumber(s) /\ (SignedValue(s) > n \/ SignedValue(s) < 1)
    \/ /\ ColonCount(s) = 1
       /\ LET a == BeforeColon(s)
              b == AfterColon(s)
          IN  /\ a = <<>> \/ IsSignedNumber(a)
              /\ b = <<>> \/ IsSignedNumber(b)
              /\ \/ a # <<>> /\ (SignedValue(a) > n \/ SignedValue(a) < 1)
                 \/ b # <<>> /\ SignedValue(b) < 1
                 \/ a # <<>> /\ b # <<>> /\ SignedValue(a) > SignedValue(b)

OnlyWhitespaceAndCommas(s) == \A i \in 1..Len(s) : s[i] \in {" ", ","}

\* C3: an expression that is empty or only white space and commas, or that
\* has a rejected segment, makes the call fail without a page list, and a
\* failure on a segment names the first segment, from the left, that does not
\* parse.
C3_RejectsInvalidRange ==
    rangeResult # NoResult =>
        /\ (\/ OnlyWhitespaceAndCommas(rangeStr)
            \/ \E i \in 1..Len(Segments) : IsRejectedSegment(Segments[i], totalPages))
               => rangeResult.kind = "error"
        /\ (rangeResult.kind = "error" /\ Len(Segments) > 0)
               => \E i \in 1..Len(Segments) :
                      /\ rangeResult.segment = Segments[i]
                      /\ parseSinglePageRange(Segments[i], totalPages).kind = "error"
                      /\ \A j \in 1..(i - 1) :
                             parseSinglePageRange(Segments[j], totalPages).kind = "pages"

\* C3 witness: a call that failed on its second segment, the first being
\* valid, because the start of the second exceeds N.
C3_Witness ==
    /\ rangeResult.kind = "error"
    /\ Len(Segments) = 2
    /\ rangeResult.segment = Segments[2]
    /\ ColonCount(Segments[2]) = 1
    /\ IsDigits(BeforeColon(Segments[2]))
    /\ DecimalValue(BeforeColon(Segments[2])) > totalPages
    /\ totalPages >= 1

\* Whether a segment is a single page number or an interval whose given
\* bounds are numbers: white space around a bound and a sign are allowed.
IsNumericBound(s) == IsDigits(Trim(s)) \/ (Trim(s) # <<>> /\ Head(Trim(s)) \in {"-", "+"}
                                              /\ IsDigits(Tail(Trim(s))))
IsParseableSegment(s) ==
    \/ IsNumericBound(s)
    \/ /\ ColonCount(s) = 1
       /\ Trim(BeforeColon(s)) = <<>> \/ IsNumericBound(BeforeColon(s))
       /\ Trim(AfterColon(s)) = <<>> \/ IsNumericBound(AfterColon(s))

\* C4: the call fails whenever some segment is not a page number or an
\* interval, or has a bound that is not a number, a number followed by other
\* characters included.
C4_RejectsUnparseableSegment ==
    (rangeResult # NoResult /\ \E i \in 1..Len(Segments) : ~IsParseableSegment(Segments[i]))
        => rangeResult.kind = "error"

IsHyphenated(s) ==
    /\ Cardinality({i \in 1..Len(s) : s[i] = "-"}) = 1
    /\ LET h == CHOOSE i \in 1..Len(s) : s[i] = "-"
       IN  IsDigits(SubSeq(s, 1, h - 1)) /\ IsDigits(SubSeq(s, h + 1, Len(s)))
HyphenFrom(s) == DecimalValue(SubSeq(s, 1, (CHOOSE i \in 1..Len(s) : s[i] = "-") - 1))
HyphenTo(s) == DecimalValue(SubSeq(s, (CHOOSE i \in 1..Len(s) : s[i] = "-") + 1, Len(s)))

\* C5: a hyphenated segment a-b with 1 <= a <= b <= N denotes the pages a to
\* b: the call returns a page list that holds all of them.
C5_HyphenDenotesInterval ==
    (/\ rangeResult # NoResult
     /\ \A i \in 1..Len(Segments) : IsCanonical(Segments[i]) \/ IsHyphenated(Segments[i]))
        => \A i \in 1..Len(Segments) :
               (/\ IsHyphenated(Segments[i])
                /\ 1 <= HyphenFrom(Segments[i])
                /\ HyphenFrom(Segments[i]) <= HyphenTo(Segments[i])
                /\ HyphenTo(Segments[i]) <= totalPages)
                   => /\ rangeResult.kind = "pages"
                         => HyphenFrom(Segments[i])..HyphenTo(Segments[i])
                                \subseteq Elements(rangeResult.pages)
                      /\ rangeResult.kind = "error"
                         => rangeResult.segment # Segments[i]

(***************************************************************************)
(* Properties of the pattern compiler.                                     *)
(***************************************************************************)
\* A pattern is delimited when it begins with '/' and has another '/' later.
HasTwoSlashes(pat) ==
    pat # <<>> /\ Head(pat) = "/" /\ \E i \in 2..Len(pat) : pat[i] = "/"

LastSlash(pat) == CHOOSE i \in 1..Len(pat) :
                      pat[i] = "/" /\ \A j \in (i + 1)..Len(pat) : pat[j] # "/"

ToLowerCase(c) == IF c = "A" THEN "a" ELSE c

\* The text holds the string s at offset p (0-based), letter case ignored.
OccursAt(s, txt, p) ==
    /\ p + Len(s) <= Len(txt)
    /\ \A k \in 1..Len(s) : ToLowerCase(txt[p + k]) = ToLowerCase(s[k])

\* C6: a pattern is compiled as a regular expression exactly when it begins
\* with '/' and has a later '/'; any other pattern compiles to an expression
\* with the flags g and i that matches at an offset exactly when the pattern
\* itself occurs there, letter case ignored; a delimited pattern keeps the
\* body between the first and the last '/' and the flags after the last '/'
\* unchanged, and fails for an unsupported flag or a body that does not
\* compile.
C6_PatternCompilation ==
    compiled # NoResult =>
        /\ compiled.kind = "compiled" => (compiled.isRegex <=> HasTwoSlashes(pattern))
        /\ ~HasTwoSlashes(pattern) =>
               /\ compiled.kind = "compiled"
               /\ compiled.regex.kind = "regex"
               /\ Elements(compiled.regex.flags) = {"g", "i"}
               /\ \A p \in 0..Len(text) :
                      MatchLengthAt(compiled.regex, text, p)
                          = IF OccursAt(pattern, text, p) THEN Len(pattern) ELSE 0 - 1
        /\ HasTwoSlashes(pattern) =>
               LET body  == SubSeq(pattern, 2, LastSlash(pattern) - 1)
                   flags == SubSeq(pattern, LastSlash(pattern) + 1, Len(pattern))
               IN  /\ compiled.kind = "compiled" =>
                          /\ compiled.regex.source = body
                          /\ compiled.regex.flags = flags
                   /\ (\/ \E i \in 1..Len(flags) : flags[i] \notin ValidFlags
                       \/ ~ParseSource(body, <<<<>>>>).ok)
                          => compiled.kind = "error"

\* C6 witness: a literal pattern holding the metacharacter '.' was compiled
\* and occurs in the text in another letter case.
C6_Witness ==
    /\ compiled # NoResult
    /\ compiled.kind = "compiled"
    /\ ~compiled.isRegex
    /\ Includes(pattern, ".")
    /\ \E p \in 0..Len(text) :
           /\ MatchLengthAt(compiled.regex, text, p) = Len(pattern)
           /\ SubSeq(text, p + 1, p + Len(pattern)) # pattern

(***************************************************************************)
(* Properties of the matcher.                                              *)
(***************************************************************************)
\* C8: when the deadline of the timer passes while the text is being scanned,
\* the caller gets the timeout error and no match list.
C8_TimeoutWinsRace ==
    (outcome # NoResult /\ timer.expired)
        => (outcome.kind = "error" /\ outcome.error = "Search timed out")

\* C10: the match loop, once entered, ends, and while an expression with the
\* g flag stays in the loop its lastIndex grows with every match it pushes,
\* an empty match included.
C10_MatchLoopTerminates ==
    /\ (scanPc = "loop") ~> (scanPc = "done")
    /\ [][(scanPc = "loop" /\ scanPc' = "loop" /\ matches' # matches /\ IsGlobal(regex))
              => regex'.lastIndex > regex.lastIndex]_vars

\* C10 witness: the loop has ended on a non-empty text after an empty match
\* at every offset.
C10_Witness ==
    /\ scanPc = "done"
    /\ promise.state = "resolved"
    /\ Len(text) >= 1
    /\ Length(matches) = Len(text) + 1
    /\ \A i \in 1..Length(matches) :
           Entries(matches)[i].m0 = <<>> /\ Entries(matches)[i].index = i - 1

(***************************************************************************)
(* Properties of a search_pdf call.                                        *)
(***************************************************************************)
NumericOutOfDomain ==
    \/ args.context_chars < 10 \/ args.context_chars > 1000
    \/ args.search_timeout < 1000 \/ args.search_timeout > 60000
    \/ args.max_results.given /\ args.max_results.val < 1
    \/ args.max_pages_scanned.given /\ args.max_pages_scanned.val < 1

InvalidPageRange == fileOk /\ parsePageRange(rangeStr, Len(doc)).kind = "error"

InvalidPattern == parseSearchPattern(pattern).kind = "error"

\* C7: in a call with an invalid page range, an invalid pattern or a numeric
\* argument out of its domain, no page's text is ever extracted, no page is
\* ever scanned, no result envelope is ever returned, and the call ends with
\* an error.
C7_InvalidInputFailsBeforeScan ==
    (hPc # "idle" /\ (NumericOutOfDomain \/ InvalidPageRange \/ InvalidPattern)) =>
        /\ extractLog = <<>>
        /\ scanLog = <<>>
        /\ scanPc = "idle"
        /\ response.kind # "result"
        /\ hPc = "done" => response.kind = "error"

\* C7 witness: a call whose other arguments are valid, on a file that loads,
\* has ended with the error of the invalid pattern.
C7_Witness ==
    /\ hPc = "done"
    /\ InvalidPattern
    /\ ~NumericOutOfDomain
    /\ args.max_results = Undefined /\ args.max_pages_scanned = Undefined
    /\ rangeResult.kind = "pages"
    /\ response = ErrorResponse("search pattern")

\* The matches of the list are matches of the expression in the text, in
\* ascending order, and the expression matches at no offset that is neither
\* the start of a listed match nor inside one.
MatchListComplete ==
    LET es == Entries(matches) IN
    /\ \A i \in 1..Len(es) :
           /\ MatchLengthAt(regex, text, es[i].index) = Len(es[i].m0)
           /\ es[i].m0 = SubSeq(text, es[i].index + 1, es[i].index + Len(es[i].m0))
    /\ \A i \in 1..(Len(es) - 1) : es[i].index < es[i + 1].index
    /\ \A p \in 0..Len(text) :
           MatchLengthAt(regex, text, p) >= 0 =>
               \E i \in 1..Len(es) :
                   \/ es[i].index = p
                   \/ es[i].index < p /\ p < es[i].index + Len(es[i].m0)

TooManyMatchesRejection ==
    scanPc = "done" /\ promise = [state |-> "rejected", error |-> "Too many matches found"]

\* C9: a scan that ends normally has found at most MatchCeiling matches and
\* its list is complete; the loop never continues with more than
\* MatchCeiling matches, and the scan fails with the too-many-matches error
\* exactly at match MatchCeiling + 1; the search function then records one
\* error for that page, adds no result for it, returns nothing yet, and goes
\* on to the next page of the range.
C9_MatchCeilingPerPage ==
    /\ [](hPc # "idle" =>
            /\ (scanPc = "done" /\ promise.state = "resolved") =>
                   (Length(matches) <= MatchCeiling /\ MatchListComplete)
            /\ scanPc = "loop" => Length(matches) <= MatchCeiling
            /\ (scanPc = "done" /\ promise.state = "rejected") =>
                   (TooManyMatchesRejection /\ Length(matches) = MatchCeiling + 1))
    /\ [][(TooManyMatchesRejection /\ hPc \in {"pbp_scan", "cmp_scan"} /\ hPc' # hPc) =>
              /\ errors' = Append(errors, SearchFailedError(rangeResult.pages[idx],
                                                            "Too many matches found"))
              /\ results' = results
              /\ response' = response
              /\ idx' = idx + 1
              /\ hPc' = IF hPc = "pbp_scan" THEN "pbp_page" ELSE "cmp_page"]_vars

\* C9 witness: the call has returned a result envelope in which page 1 has
\* the too-many-matches error, and page 2 was scanned after it.
C9_Witness ==
    /\ hPc = "done"
    /\ response.kind = "result"
    /\ response.summary.search_strategy = "extract_all"
    /\ response.errors = <<SearchFailedError(1, "Too many matches found")>>
    /\ scanLog = <<1, 2>>
    /\ Length(matches) = 0

(***************************************************************************)
(* Properties of the two search strategies.                                *)
(***************************************************************************)
NoLimits == args.max_results = Undefined /\ args.max_pages_scanned = Undefined

PageSet == rangeResult.pages

\* The pages of the log, as a set
Logged(log) == {log[i] : i \in 1..Len(log)}

HasError(errs, pageNum, message) ==
    \E i \in 1..Len(errs) : errs[i].page = pageNum /\ errs[i].error = message

\* C11: a call without max_results and max_pages_scanned never enters the
\* page-by-page function, and every result it returns is that of the
\* extract-all strategy with completed = true, stop reason 'completed' and
\* pages_scanned equal to the size of the page set; the text of exactly the
\* pages of the set was extracted, in their order, and every one of them
\* was either scanned or recorded as having no text.
C11_ExhaustiveAlwaysCompletes ==
    (hPc # "idle" /\ NoLimits) =>
        /\ hPc \notin {"pbp_begin", "pbp_page", "pbp_scan"}
        /\ response.kind = "result" =>
               /\ response.summary.search_strategy = "extract_all"
               /\ response.summary.completed = TRUE
               /\ response.summary.stopped_reason = "completed"
               /\ response.summary.pages_scanned = Len(PageSet)
               /\ extractLog = PageSet
               /\ Logged(scanLog) \subseteq Logged(PageSet)
               /\ \A i \in 1..Len(PageSet) :
                      \/ PageSet[i] \in Logged(scanLog)
                      \/ HasError(response.errors, PageSet[i], "No text extracted")

\* C11 witness: a result for a page set of two pages, one of which has a
\* page result and the other a per-page failure.
C11_Witness ==
    /\ NoLimits
    /\ response.kind = "result"
    /\ Len(PageSet) = 2
    /\ Len(response.matches) = 1
    /\ Len(response.errors) = 1

IsPrefix(s, t) == Len(s) <= Len(t) /\ s = SubSeq(t, 1, Len(s))

\* C12: in a call with max_pages_scanned = k the pages whose text is
\* extracted are always the first pages of the page set, at most k of them,
\* failed and empty pages included, and no other page is scanned; a result
\* for a page set of more than k pages that was not stopped by the result
\* limit has stop reason 'max_pages', completed = false and
\* pages_scanned = k.
C12_PageLimitStopsScan ==
    (hPc # "idle" /\ args.max_pages_scanned.given /\ args.max_pages_scanned.val >= 1) =>
        /\ Len(extractLog) <= args.max_pages_scanned.val
        /\ extractLog # <<>> => IsPrefix(extractLog, PageSet)
        /\ Logged(scanLog) \subseteq Logged(extractLog)
        /\ (/\ response.kind = "result"
            /\ Len(PageSet) > args.max_pages_scanned.val
            /\ response.summary.stopped_reason # "max_results") =>
               /\ response.summary.stopped_reason = "max_pages"
               /\ response.summary.completed = FALSE
               /\ response.summary.pages_scanned = args.max_pages_scanned.val

\* C12 witness: a search of a page set of two pages with max_pages_scanned
\* = 1 stopped at the page limit after a first page that failed.
C12_Witness ==
    /\ response.kind = "result"
    /\ args.max_pages_scanned = Given(1)
    /\ args.max_results = Undefined
    /\ Len(PageSet) = 2
    /\ response.summary.stopped_reason = "max_pages"
    /\ response.summary.pages_scanned = 1
    /\ Len(response.errors) = 1
    /\ extractLog = <<PageSet[1]>>

\* The 1-based position of a page in the page set
PositionOf(pageNum) == CHOOSE i \in 1..Len(PageSet) : PageSet[i] = pageNum

\* C13: in a call with max_results = m the page loop never continues with a
\* cumulative match count of m or more, and a result that did not stop at
\* the result limit has fewer than m matches; a result with stop reason
\* 'max_results' has m or more matches, its last page result is that of the
\* page scanned last, with every match of that page, the page results
\* before it hold fewer than m matches, pages_scanned is the position of
\* the last page in the page set, and no page after it was extracted.
C13_ResultLimitStopsScan ==
    (hPc # "idle" /\ args.max_results.given /\ args.max_results.val >= 1) =>
        /\ hPc \in {"pbp_page", "pbp_scan"} => totalMatchCount < args.max_results.val
        /\ (response.kind = "result" /\ response.summary.stopped_reason # "max_results") =>
               response.summary.total_matches < args.max_results.val
        /\ (response.kind = "result" /\ response.summary.stopped_reason = "max_results") =>
               LET n    == Len(response.matches)
                   last == response.matches[n]
               IN  /\ response.summary.completed = FALSE
                   /\ response.summary.total_matches >= args.max_results.val
                   /\ SumMatchCount(SubSeq(response.matches, 1, n - 1)) < args.max_results.val
                   /\ last.page \in Logged(PageSet)
                   /\ response.summary.pages_scanned = PositionOf(last.page)
                   /\ extractLog = SubSeq(PageSet, 1, PositionOf(last.page))
                   /\ text = doc[last.page]
                   /\ last.matchCount = Length(matches)
                   /\ Len(last.snippets) = Length(matches)
                   /\ MatchListComplete

\* C13 witness: with max_results = 1 the first page has no match and the
\* second page has two; the search stopped there and reports both.
C13_Witness ==
    /\ response.kind = "result"
    /\ args.max_results = Given(1)
    /\ response.summary.stopped_reason = "max_results"
    /\ response.summary.pages_scanned = 2
    /\ Len(response.matches) = 1
    /\ response.matches[1].page = 2
    /\ response.matches[1].matchCount = 2
    /\ response.errors = <<>>

\* A page text with nothing but white space
IsBlank(txt) == \A i \in 1..Len(txt) : IsWhiteSpace(txt[i])

InPageLoop == hPc \in {"pbp_page", "pbp_scan", "cmp_page", "cmp_scan"}

ScanRejected == scanPc = "done" /\ promise.state = "rejected"

\* C14: in both search functions no page has two error entries and no page
\* has both an error entry and a page result; a step of the page loop that
\* finds the page's text blank, or leaves a scan that was rejected, and any
\* step that adds an error, adds exactly one entry, for the current page,
\* adds no page result, returns nothing, and moves to the head of the loop
\* for the next page.
C14_PageFailuresAreLocal ==
    /\ [](hPc # "idle" =>
            /\ \A i, j \in 1..Len(errors) : errors[i].page = errors[j].page => i = j
            /\ \A i \in 1..Len(errors) : \A j \in 1..Len(results) :
                   errors[i].page # results[j].page
            /\ response.kind = "result" =>
                   (response.errors = errors /\ response.summary.errors = Len(errors)))
    /\ [][(/\ InPageLoop
           /\ \/ errors' # errors
              \/ hPc = "cmp_page" /\ idx <= Len(PageSet) /\ IsBlank(pageTexts[idx])
              \/ hPc \in {"pbp_scan", "cmp_scan"} /\ ScanRejected /\ hPc' # hPc) =>
              /\ Len(errors') = Len(errors) + 1
              /\ SubSeq(errors', 1, Len(errors)) = errors
              /\ errors'[Len(errors')].page = PageSet[idx]
              /\ results' = results
              /\ response' = response
              /\ idx' = idx + 1
              /\ hPc' = IF hPc \in {"pbp_page", "pbp_scan"} THEN "pbp_page" ELSE "cmp_page"]_vars

\* C14 witness: a page-by-page search whose first page had no text returned
\* the error for page 1 and the page result of page 2.
C14_Witness ==
    /\ response.kind = "result"
    /\ response.summary.search_strategy = "page_by_page"
    /\ response.errors = <<NoTextError(1)>>
    /\ Len(response.matches) = 1
    /\ response.matches[1].page = 2

\* The sum of matchCount over the first n page results
RECURSIVE TotalOf(_, _)
TotalOf(rs, n) == IF n = 0 THEN 0 ELSE TotalOf(rs, n - 1) + rs[n].matchCount

\* C15: the total_matches of a result is the sum of matchCount over its page
\* results, and in the page-by-page function it is the cumulative count
\* kept during the scan; the matchCount of every page result is the number
\* of its snippets; the cumulative count and the sum over the page results
\* collected so far never decrease.
C15_TotalIsSumOfPageCounts ==
    /\ [](hPc # "idle" =>
            /\ \A i \in 1..Len(results) :
                   /\ results[i].matchCount = Len(results[i].snippets)
                   /\ results[i].matchCount >= 1
            /\ response.kind = "result" =>
                   /\ response.matches = results
                   /\ response.summary.total_matches = TotalOf(results, Len(results))
                   /\ response.summary.pages_with_matches = Len(results)
                   /\ response.summary.search_strategy = "page_by_page" =>
                          response.summary.total_matches = totalMatchCount)
    /\ [][hPc # "idle" =>
              /\ totalMatchCount' >= totalMatchCount
              /\ TotalOf(results', Len(results')) >= TotalOf(results, Len(results))]_vars

\* C15 witness: a result with two page results, of one and of two matches.
C15_Witness ==
    /\ response.kind = "result"
    /\ Len(response.matches) = 2
    /\ response.matches[1].matchCount = 1
    /\ response.matches[2].matchCount = 2
    /\ response.summary.total_matches = 3

(***************************************************************************)
(* Properties of the snippet window.                                       *)
(***************************************************************************)
\* C16: for a span [s, e) of a text of length L and a context size c the
\* snippet is the text from max(0, s - c) up to min(L, e + c); the reported
\* start is s - max(0, s - c) and the reported end is start + (e - s), so
\* that 0 <= start <= end <= length of the snippet, start <= c, the snippet
\* is no longer than 2c + (e - s), and the characters of the snippet from
\* start to end are the text from s to e.
C16_SnippetWindow ==
    contextResult # NoResult =>
        LET s     == contextArgs.matchStart
            e     == contextArgs.matchEnd
            c     == contextArgs.contextChars
            from  == IF s - c > 0 THEN s - c ELSE 0
            upto  == IF e + c < Len(text) THEN e + c ELSE Len(text)
            start == contextResult.matchStartInSnippet
            end   == contextResult.matchEndInSnippet
        IN  /\ Len(contextResult.snippet) = upto - from
            /\ \A k \in 1..(upto - from) : contextResult.snippet[k] = text[from + k]
            /\ start = s - from
            /\ end = start + (e - s)
            /\ 0 <= start /\ start <= end /\ end <= Len(contextResult.snippet)
            /\ start <= c
            /\ Len(contextResult.snippet) <= 2 * c + (e - s)
            /\ \A k \in 1..(e - s) : contextResult.snippet[start + k] = text[s + k]

\* C16 witness: a window cut short on neither side, around a span that is
\* not empty and starts after the context.
C16_Witness ==
    /\ contextResult # NoResult
    /\ contextArgs.contextChars = 1
    /\ contextArgs.matchStart = 2
    /\ contextArgs.matchEnd = 3
    /\ Len(text) = 4
    /\ Len(contextResult.snippet) = 3
    /\ contextResult.matchStartInSnippet = 1

(***************************************************************************)
(* Order of the pages and of the snippets.                                 *)
(***************************************************************************)
\* The offsets in the page text at which a match would give this snippet
OffsetsOf(snip, txt, c) ==
    {s \in 0..Len(txt) :
        LET e    == s + (snip.matchEnd - snip.matchStart)
            from == IF s - c > 0 THEN s - c ELSE 0
            upto == IF e + c < Len(txt) THEN e + c ELSE Len(txt)
        IN  /\ e <= Len(txt)
            /\ snip.matchStart = s - from
            /\ snip.text = SubSeq(txt, from + 1, upto)}

\* C17: the pages handed to the backend and the pages scanned are in
\* strictly ascending page order; the page results are in strictly
\* ascending page order, each for a page of the page set; a scan that ended
\* normally lists its matches in ascending order of offset, and the
\* snippets of a page result come from offsets of the page text that
\* ascend from one snippet to the next.
C17_AscendingOrder ==
    hPc # "idle" =>
        /\ StrictlyIncreasing(extractLog)
        /\ StrictlyIncreasing(scanLog)
        /\ StrictlyIncreasing([i \in 1..Len(results) |-> results[i].page])
        /\ \A i \in 1..Len(results) : results[i].page \in Logged(PageSet)
        /\ (scanPc = "done" /\ promise.state = "resolved") =>
               StrictlyIncreasing([i \in 1..Length(matches) |-> Entries(matches)[i].index])
        /\ \A i \in 1..Len(results) :
               LET snips == results[i].snippets
                   txt   == doc[results[i].page]
               IN  /\ \A k \in 1..Len(snips) :
                          OffsetsOf(snips[k], txt, args.context_chars) # {}
                   /\ \A k \in 1..(Len(snips) - 1) :
                          \A s \in OffsetsOf(snips[k], txt, args.context_chars) :
                              \A t \in OffsetsOf(snips[k + 1], txt, args.context_chars) :
                                  s < t

\* C17 witness: for the page range '2,1' the result has the page result of
\* page 1 before that of page 2, and page 2 has two snippets.
C17_Witness ==
    /\ response.kind = "result"
    /\ rangeStr = <<"2", ",", "1">>
    /\ Len(response.matches) = 2
    /\ response.matches[1].page = 1
    /\ response.matches[2].page = 2
    /\ Len(response.matches[2].snippets) = 2
    /\ scanLog = <<1, 2>>

(***************************************************************************)
(* Properties of the outline extraction.                                   *)
(***************************************************************************)
BackendHasNoOutline == outline.kind = "null" \/ (outline.kind = "items" /\ outline.items = <<>>)

\* C18: when getOutline gives null or an empty list the call returns, and
\* does not throw, a result with has_outline = false, no items and a
\* summary of four zeros.
C18_NoOutlineIsEmptyResult ==
    (outlineResult # NoResult /\ BackendHasNoOutline) =>
        /\ outlineResult.kind = "result"
        /\ outlineResult.has_outline = FALSE
        /\ outlineResult.outline_items = <<>>
        /\ outlineResult.summary.total_items = 0
        /\ outlineResult.summary.max_depth = 0
        /\ outlineResult.summary.items_with_pages = 0
        /\ outlineResult.summary.items_with_urls = 0

\* C18 witness: the call has returned for an outline that is an empty list.
C18_Witness ==
    /\ outlineResult # NoResult
    /\ outline.kind = "items"
    /\ outline.items = <<>>
    /\ outlineResult.kind = "result"

\* The raw outline has items on three levels
HasThreeLevels(items) ==
    \E i \in 1..Len(items) : \E j \in 1..Len(items[i].items) :
        Len(items[i].items[j].items) > 0

RECURSIVE SumOfChildren(_)
SumOfChildren(items) ==
    IF items = <<>> THEN 0 ELSE Len(Head(items).items) + SumOfChildren(Tail(items))

\* C19: with maxDepth = 1 and no flattening, a raw outline of three levels
\* gives the top-level items, each with all of its first-level children,
\* those children without children of their own, and total_items counts
\* the top-level items and their first-level children.
C19_DepthOneKeepsFirstChildren ==
    (/\ outlineResult # NoResult
     /\ outline.kind = "items"
     /\ HasThreeLevels(outline.items)
     /\ outlineOptions.maxDepth = Given(1)
     /\ ~outlineOptions.flattenStructure) =>
        LET raw == outline.items
            out == outlineResult.outline_items
        IN  /\ outlineResult.kind = "result"
            /\ Len(out) = Len(raw)
            /\ \A i \in 1..Len(raw) :
                   /\ out[i].title = raw[i].title
                   /\ out[i].level = 0
                   /\ Len(out[i].children.val) = Len(raw[i].items)
                   /\ \A j \in 1..Len(raw[i].items) :
                          /\ out[i].children.val[j].title = raw[i].items[j].title
                          /\ out[i].children.val[j].level = 1
                          /\ out[i].children.val[j].children.val = <<>>
            /\ outlineResult.summary.total_items = Len(raw) + SumOfChildren(raw)

\* Every item of the list has this level and its children the next one
RECURSIVE NestedLevelsFrom(_, _)
NestedLevelsFrom(items, level) ==
    \A i \in 1..Len(items) :
        /\ items[i].level = level
        /\ NestedLevelsFrom(items[i].children.val, level + 1)

\* Every item of the list, and below it, has a level under d
RECURSIVE LevelsUnder(_, _)
LevelsUnder(items, d) ==
    \A i \in 1..Len(items) :
        /\ items[i].level < d
        /\ LevelsUnder(items[i].children.val, d)

RECURSIVE RawDepth(_)
RawDepth(items) ==
    IF items = <<>> THEN 0
    ELSE Max(1 + RawDepth(Head(items).items), RawDepth(Tail(items)))

\* C20: whenever the backend gives an outline the call returns a result and
\* throws nothing, however deep the outline is; in a nested result the
\* top-level items have level 0 and every child the level of its parent
\* plus one; with maxDepth = d no item of the result, nested or flattened,
\* has a level of d or more, and summary.max_depth is at most d.
C20_LevelsAndDepthLimit ==
    (outlineResult # NoResult /\ outline.kind # "failure") =>
        /\ outlineResult.kind = "result"
        /\ ~outlineOptions.flattenStructure =>
               NestedLevelsFrom(outlineResult.outline_items, 0)
        /\ outlineOptions.flattenStructure =>
               \A i \in 1..Len(outlineResult.outline_items) :
                   /\ ~outlineResult.outline_items[i].children.given
                   /\ outlineResult.outline_items[i].level >= 0
                   /\ outlineResult.outline_items[i].level
                          = Len(outlineResult.outline_items[i].title) - 1
        /\ outlineOptions.maxDepth.given =>
               /\ LevelsUnder(outlineResult.outline_items, outlineOptions.maxDepth.val)
               /\ outlineResult.summary.max_depth <= outlineOptions.maxDepth.val

\* C20 witness: an outline of three levels was cut to two by maxDepth = 2.
C20_Witness ==
    /\ outlineResult # NoResult
    /\ outline.kind = "items"
    /\ RawDepth(outline.items) = 3
    /\ outlineOptions.maxDepth = Given(2)
    /\ ~outlineOptions.flattenStructure
    /\ outlineResult.kind = "result"
    /\ outlineResult.summary.max_depth = 2

(***************************************************************************)
(* Properties of flattening and of the summary.                            *)
(***************************************************************************)
\* The forest that processOutlineItems gives for the raw outline
NormalizedForest ==
    processOutlineItems(outline.items, 0, outlineOptions.maxDepth,
                        outlineOptions.includeDestinations)

WithoutChildren(item) == [item EXCEPT !.children = [given |-> FALSE, val |-> <<>>]]

\* The items of a forest, each without its children
RECURSIVE NodesOf(_)
NodesOf(items) ==
    UNION {{WithoutChildren(items[i])} \cup NodesOf(items[i].children.val) : i \in 1..Len(items)}

\* Path p comes before path q in pre-order: p is a proper prefix of q, or
\* p has the smaller index at the first place where they differ.
PreOrderBefore(p, q) ==
    \/ Len(p) < Len(q) /\ SubSeq(q, 1, Len(p)) = p
    \/ \E k \in 1..Minimum(Len(p), Len(q)) :
           /\ SubSeq(p, 1, k - 1) = SubSeq(q, 1, k - 1)
           /\ p[k] < q[k]

\* C21: a flattened result lists exactly the items of the normalized
\* forest, each once, without a children field and with the level it had in
\* the forest, in pre-order: a parent before its subtree, the subtree
\* before the next sibling, siblings in their original order.
C21_FlattenIsPreOrder ==
    (/\ outlineResult # NoResult
     /\ outlineResult.kind = "result"
     /\ outlineResult.has_outline
     /\ outlineOptions.flattenStructure) =>
        LET flat == outlineResult.outline_items IN
        /\ {flat[k] : k \in 1..Len(flat)} = NodesOf(NormalizedForest)
        /\ Len(flat) = Cardinality(NodesOf(NormalizedForest))
        /\ \A k \in 1..Len(flat) : ~flat[k].children.given
        /\ \A k \in 1..(Len(flat) - 1) : PreOrderBefore(flat[k].title, flat[k + 1].title)

\* C21 witness: two top-level items with two children each were flattened
\* to a list of six.
C21_Witness ==
    /\ outlineResult # NoResult
    /\ outlineResult.kind = "result"
    /\ outlineOptions.flattenStructure
    /\ outline.kind = "items"
    /\ Len(outline.items) = 2
    /\ Len(outlineResult.outline_items) = 6
    /\ [k \in 1..6 |-> outlineResult.outline_items[k].level] = <<0, 1, 1, 0, 1, 1>>

\* The items kept after the depth cut, each without its children
KeptNodes == IF BackendHasNoOutline THEN {} ELSE NodesOf(NormalizedForest)

GreatestLevel(nodes) == CHOOSE l \in {n.level : n \in nodes} : \A n \in nodes : n.level <= l

\* C22: with or without flattening the summary of a result counts the items
\* kept after the depth cut: total_items is their number, max_depth is one
\* more than their greatest level, or 0 when there is none, and
\* items_with_pages and items_with_urls are the numbers of kept items that
\* have a page and that have a url.
C22_SummaryOfKeptNodes ==
    (outlineResult # NoResult /\ outlineResult.kind = "result") =>
        /\ outlineResult.summary.total_items = Cardinality(KeptNodes)
        /\ outlineResult.summary.max_depth
               = IF KeptNodes = {} THEN 0 ELSE 1 + GreatestLevel(KeptNodes)
        /\ outlineResult.summary.items_with_pages
               = Cardinality({n \in KeptNodes : n.page.given})
        /\ outlineResult.summary.items_with_urls
               = Cardinality({n \in KeptNodes : n.url})

\* C22 witness: a nested result of three levels cut to two, whose summary
\* counts six items, some with a page and some with a url.
C22_Witness ==
    /\ outlineResult # NoResult
    /\ outlineResult.kind = "result"
    /\ ~outlineOptions.flattenStructure
    /\ outlineOptions.maxDepth = Given(2)
    /\ outline.kind = "items"
    /\ RawDepth(outline.items) = 3
    /\ outlineResult.summary.total_items = 6
    /\ outlineResult.summary.max_depth = 2
    /\ outlineResult.summary.items_with_pages >= 1
    /\ outlineResult.summary.items_with_urls >= 1

\* The emitted items mirror the raw items one for one: same title, the
\* level of the list, the url, a page exactly when destinations are asked
\* for and the dest resolves, a destination exactly when they are asked for
\* and there is a dest, and children that mirror the raw children down to
\* the depth cut.
RECURSIVE Mirrors(_, _, _)
Mirrors(raw, out, level) ==
    /\ Len(out) = Len(raw)
    /\ \A i \in 1..Len(raw) :
           /\ out[i].title = raw[i].title
           /\ out[i].level = level
           /\ out[i].url = raw[i].url
           /\ out[i].page.given
                  <=> (outlineOptions.includeDestinations /\ raw[i].dest.kind = "resolved")
           /\ out[i].page.given => out[i].page.val = raw[i].dest.page
           /\ out[i].destination
                  <=> (outlineOptions.includeDestinations /\ raw[i].dest.kind # "none")
           /\ out[i].children.given <=> raw[i].items # <<>>
           /\ IF outlineOptions.maxDepth.given /\ level + 1 >= outlineOptions.maxDepth.val
              THEN out[i].children.val = <<>>
              ELSE Mirrors(raw[i].items, out[i].children.val, level + 1)

RECURSIVE HasUnresolvedParent(_)
HasUnresolvedParent(items) ==
    \E i \in 1..Len(items) :
        \/ items[i].dest.kind = "unresolved" /\ items[i].items # <<>>
        \/ HasUnresolvedParent(items[i].items)

\* C23: in a nested result every raw item down to the depth cut is emitted,
\* whatever became of its dest: an item whose dest does not resolve has no
\* page, and its siblings and the items below it are what they are for any
\* other item.
C23_UnresolvedDestinationIsLocal ==
    (/\ outlineResult # NoResult
     /\ outlineResult.kind = "result"
     /\ outlineResult.has_outline
     /\ ~outlineOptions.flattenStructure) =>
        Mirrors(outline.items, outlineResult.outline_items, 0)

\* C23 witness: with destinations asked for, an item whose dest does not
\* resolve was emitted with its children, next to an item with a page.
C23_Witness ==
    /\ outlineResult # NoResult
    /\ outlineResult.kind = "result"
    /\ ~outlineOptions.flattenStructure
    /\ outlineOptions.includeDestinations
    /\ outlineOptions.maxDepth = Undefined
    /\ outline.kind = "items"
    /\ HasUnresolvedParent(outline.items)
    /\ \E i, j \in 1..Len(outlineResult.outline_items) :
           /\ outlineResult.outline_items[i].destination
           /\ ~outlineResult.outline_items[i].page.given
           /\ Len(outlineResult.outline_items[i].children.val) > 0
           /\ outlineResult.outline_items[j].page.given

\* The deepest ceiling that would show on the raw outlines explored here,
\* which nest MaxOutlineDepth levels: a cut at any level below that.
CeilingBelowDeepest == MaxOutlineDepth - 1

\* C24: when the caller gives no maxDepth the traversal is still cut off at
\* an internal depth ceiling: the emitted levels stay below the ceiling
\* although the raw outline nests deeper.
C24_InternalDepthCeiling ==
    (/\ outlineResult # NoResult
     /\ outlineResult.kind = "result"
     /\ outlineOptions.maxDepth = Undefined) =>
        outlineResult.summary.max_depth <= CeilingBelowDeepest

(***************************************************************************)
(* Each occurrence once.                                                   *)
(***************************************************************************)
\* The offsets at which the expression matches the text.
Occurrences == {p \in 0..Len(text) : MatchLengthAt(regex, text, p) >= 0}

\* C25: with or without the g flag, the matches collected by
\* searchWithTimeout have strictly increasing start offsets, no match being
\* collected twice, and a text with between 1 and MatchCeiling occurrences
\* gives a match list, not the too-many-matches error.
C25_EachOccurrenceOnce ==
    (scanPc # "idle") =>
        /\ \A i \in 1..Len(matches) : matches[i].count = 1
        /\ \A i \in 1..(Len(matches) - 1) :
               matches[i].match.index < matches[i + 1].match.index
        /\ (/\ outcome # NoResult
            /\ Cardinality(Occurrences) >= 1
            /\ Cardinality(Occurrences) <= MatchCeiling) => outcome.kind = "matches"

(***************************************************************************)
(* Properties of console suppression.                                      *)
(***************************************************************************)
BackendCallInFlight ==
    \E c \in Calls : nativeCalls[c].pc \in {"getDocument", "getPage", "getTextContent"}

\* C26: under every interleaving of concurrent calls, the console methods
\* are the silenced ones whenever a getDocument, getPage or getTextContent
\* call of extractTextNative is in flight, and the original ones whenever
\* none is.
C26_ConsoleSilencedWhileInFlight ==
    IF BackendCallInFlight THEN console = "silenced" ELSE console = "original"

(***************************************************************************)
(* The early-stopping search against the exhaustive search.                *)
(***************************************************************************)
\* What searchWithTimeout settles with on a text, as a function of the
\* text and the expression: the loop of ScanLoopStep run to its end.
RECURSIVE ScanFrom(_, _, _)
ScanFrom(rx, txt, ms) ==
    LET r == Exec(rx, txt) IN
    IF r.match.null THEN [kind |-> "matches", matches |-> ms]
    ELSE LET pushed == Push(ms, [index |-> r.match.index, m0 |-> r.match.m0]) IN
         IF TooManyMatches(pushed)
         THEN [kind |-> "error", error |-> "Too many matches found"]
         ELSE ScanFrom(AdvancePastEmptyMatch(r.regex, r.match), txt, pushed)

ScanOf(pageNum) == ScanFrom([CopyRegExp(searchRegex) EXCEPT !.lastIndex = 0], doc[pageNum], <<>>)

\* The page results and the error list that the exhaustive search returns
\* for the first n pages of the page set, the text of every page having been
\* extracted.
RECURSIVE ExhaustiveResults(_)
ExhaustiveResults(n) ==
    IF n = 0 THEN <<>>
    ELSE LET pageNum == PageSet[n] IN
         IF ~NoText(doc[pageNum]) /\ ScanOf(pageNum).kind = "matches"
                                  /\ Length(ScanOf(pageNum).matches) > 0
         THEN Append(ExhaustiveResults(n - 1),
                     PageResult(pageNum, ScanOf(pageNum).matches, doc[pageNum],
                                args.context_chars))
         ELSE ExhaustiveResults(n - 1)

RECURSIVE ExhaustiveErrors(_)
ExhaustiveErrors(n) ==
    IF n = 0 THEN <<>>
    ELSE LET pageNum == PageSet[n] IN
         IF NoText(doc[pageNum])
         THEN Append(ExhaustiveErrors(n - 1), NoTextError(pageNum))
         ELSE IF ScanOf(pageNum).kind = "error"
         THEN Append(ExhaustiveErrors(n - 1), SearchFailedError(pageNum, ScanOf(pageNum).error))
         ELSE ExhaustiveErrors(n - 1)

CompletedEarlyStopping ==
    /\ response.kind = "result"
    /\ response.summary.search_strategy = "page_by_page"
    /\ response.summary.stopped_reason = "completed"
    /\ IsGlobal(searchRegex)

\* C27: an early-stopping search that ends with stop reason 'completed'
\* returns the page results and the error list that the exhaustive search
\* returns for the same page set, pattern, context size, timeout and page
\* texts, also when the backend failed for pages of the set.
C27_CompletedEqualsExhaustive ==
    CompletedEarlyStopping =>
        /\ response.matches = ExhaustiveResults(Len(PageSet))
        /\ response.errors = ExhaustiveErrors(Len(PageSet))

(***************************************************************************)
(* completed and the pages scanned.                                        *)
(***************************************************************************)
\* C28: a search envelope reports completed = true, with stop reason
\* 'completed', if and only if every page of the page set was scanned, that
\* is pages_scanned is the size of the page set; completed = false means
\* that a page of the set was left unscanned.
C28_CompletedIffAllPagesScanned ==
    response.kind = "result" =>
        /\ response.summary.completed <=> response.summary.stopped_reason = "completed"
        /\ response.summary.completed <=> response.summary.pages_scanned = Len(PageSet)
        /\ ~response.summary.completed => Len(extractLog) < Len(PageSet)

(***************************************************************************)
(* No empty page list.                                                     *)
(***************************************************************************)
\* C29: whenever parsePageRange returns, the page list it returns has at
\* least one page, whatever the page count; with a page count of 0 every
\* expression is rejected.
C29_PageListNeverEmpty ==
    /\ rangeResult.kind = "pages" => Len(rangeResult.pages) >= 1
    /\ (rangeResult # NoResult /\ totalPages = 0) => rangeResult.kind = "error"

\* C29 witness: '3:' on a document of three pages returned the single page
\* 3, the interval's end having been set to the page count.
C29_Witness ==
    /\ rangeStr = <<"3", ":">>
    /\ totalPages = 3
    /\ rangeResult = Pages(<<3>>)

(***************************************************************************)
(* Properties of a failed download.                                        *)
(***************************************************************************)
Failed(c) == downloads[c].pc = "returned" /\ ~downloads[c].result.success

\* The step is the one in which call c returns success = false.
ReturnsFailure(c) ==
    /\ downloads[c].pc # "returned"
    /\ downloads'[c].pc = "returned"
    /\ ~downloads'[c].result.success

\* The step deletes or truncates a file that call c did not create.
ClobbersForeignFile(c) ==
    /\ targetFile.exists
    /\ targetFile.creator # c
    /\ targetFile' # targetFile

\* C30: a call that returned success = false, no other call having run,
\* leaves the file at filePath as it was when the call began, with no new
\* partial or empty file; and with calls running concurrently, the step in
\* which a call returns success = false neither deletes nor overwrites a
\* file that this call did not create.
C30_FailedDownloadLeavesPath ==
    /\ [](\A c \in Calls :
            (Failed(c) /\ \A d \in Calls \ {c} : downloads[d].pc = "idle")
                => targetFile = downloads[c].before)
    /\ [][\A c \in Calls : ReturnsFailure(c) => ~ClobbersForeignFile(c)]_vars

====
